---- MODULE Spec2Model ----
(***************************************************************************)
(* Model of the marketing-operations assistant's deterministic code:       *)
(*   - the NL2SQL validator (bigquery/tools.py): denylist, SQL clean-up,   *)
(*     row formatting and run_bigquery_validation;                         *)
(*   - the strategy store (storage/utils.py, storage/tools.py).            *)
(* Text is a sequence of one-character strings.  An Optional value is a    *)
(* sequence of length 0 (None) or 1 (the value).                           *)
(***************************************************************************)
EXTENDS Integers, Sequences, FiniteSets, TLC

VARIABLES
    \* --- pure SQL helpers applied to one input ---
    sql_in,          \* the sql_string handed to the helper
    cap_in,          \* the max_rows handed to _cleanup_sql
    sql_pc,          \* "input" | "checked" | "cleaned"
    dml_out,         \* result of _is_disallowed_dml(sql_in)
    cleaned_out,     \* result of _cleanup_sql(sql_in, cap_in)
    \* --- run_bigquery_validation ---
    MAX_NUM_ROWS,    \* module constant read from NL2SQL_MAX_ROWS at import
    state,           \* tool_context.state: [query_result |-> Optional(rows)]
    call,            \* the last run_bigquery_validation call, Optional(record)
    \* --- strategy store ---
    blob,            \* the strategies object: Optional(list of strategy dicts)
    uuid_next,       \* number of uuid4() values drawn so far
    op,              \* the last mutating storage call, Optional(record)
    listed,          \* result of a get_all_strategies since the last mutation
    \* --- business config object ---
    cfg_blob,        \* the business config object: Optional(stored dict)
    \* --- concurrent callers of the storage layer ---
    pc,              \* caller -> "idle" | "loaded" | "checked" | "done"
    job,             \* caller -> Optional([kind, arg]) the call it makes
    snap,            \* caller -> Optional(what its read or existence check returned)
    res,             \* caller -> Optional(the tool result it got)
    wlog,            \* the requests to the object store so far, in order:
                     \* [who, object, step] with step "read" or "write"
    \* --- tool boundary ---
    tool_call,       \* the last tool call: Optional(record)
    \* --- cli tools ---
    cli_call,        \* the last cli_run / cli_gcloud call: Optional(record)
    \* --- environment file loader ---
    environ,         \* os.environ: variable name -> value (texts)
    env_call,        \* the load_env_vars call made at startup: Optional(record)
    \* --- feedback endpoint ---
    log_records,     \* what the "promosphere" logger has emitted, in order
    fb_resp,         \* the last POST /feedback: Optional(record)
    \* --- database settings cache ---
    dataset,         \* version of the schema of the BigQuery dataset
    _database_settings, \* the module global: Optional(settings)
    session_state,   \* session -> the keys the callbacks keep in callback_context.state
    refreshed,       \* the snapshot the last update_database_settings returned
    db_call,         \* the last call about the settings: Optional(record)
    \* --- data analyzer tool ---
    db_query_agent_output, \* state['db_query_agent_output']: Optional(text)
    data_analyzer_agent_output, \* state['data_analyzer_agent_output']: Optional(text)
    da_call,          \* the last call_data_analyzer_agent call: Optional(record)
    \* --- schema snapshot builder ---
    schema_tables,    \* the dataset: its tables in the order of the metadata query
    schema_call,      \* the get_bigquery_schema call: Optional(record)
    \* --- Firestore document listing ---
    fs_collection,    \* the snapshots of the collection, in stream order
    fs_call,          \* the fs_get_all_documents call: Optional(record)
    \* --- resource registry ---
    registry_blob,    \* the registry object of the bucket: Optional(registry)
    reg_call          \* the last registry call: Optional(record)

vars == <<sql_in, cap_in, sql_pc, dml_out, cleaned_out,
          MAX_NUM_ROWS, state, call, blob, uuid_next, op, listed,
          cfg_blob, pc, job, snap, res, wlog,
          tool_call, cli_call, environ, env_call, log_records, fb_resp,
          dataset, _database_settings, session_state, refreshed, db_call,
          db_query_agent_output, data_analyzer_agent_output, da_call,
          schema_tables, schema_call,
          fs_collection, fs_call,
          registry_blob, reg_call>>

sqlVars == <<sql_in, cap_in, sql_pc, dml_out, cleaned_out>>
valVars == <<MAX_NUM_ROWS, state, call>>
stoVars == <<blob, uuid_next, op, listed>>
filVars == <<cfg_blob>>
raceVars == <<pc, job, snap, res, wlog>>
toolVars == <<tool_call>>
cliVars == <<cli_call>>
envVars == <<environ, env_call>>
fbVars == <<log_records, fb_resp>>
dbVars == <<dataset, _database_settings, session_state, refreshed, db_call>>
anaVars == <<db_query_agent_output, data_analyzer_agent_output, da_call>>
schVars == <<schema_tables, schema_call>>
fsVars == <<fs_collection, fs_call>>
regVars == <<registry_blob, reg_call>>

\* what the actions of one subsystem leave alone
restOfSql == <<valVars, stoVars, filVars, raceVars, toolVars, cliVars, envVars, fbVars, dbVars, anaVars, schVars, fsVars, regVars>>
restOfValidation == <<sqlVars, stoVars, filVars, raceVars, toolVars, cliVars, envVars, fbVars, dbVars, anaVars, schVars, fsVars, regVars>>
restOfStorage == <<sqlVars, valVars, filVars, raceVars, toolVars, cliVars, envVars, fbVars, dbVars, anaVars, schVars, fsVars, regVars>>
restOfFiles == <<sqlVars, valVars, raceVars, toolVars, cliVars, envVars, fbVars, dbVars, anaVars, schVars, fsVars, regVars>>
restOfRace == <<sqlVars, valVars, op, listed, toolVars, cliVars, envVars, fbVars, dbVars, anaVars, schVars, fsVars, regVars>>
restOfTools == <<sqlVars, valVars, stoVars, filVars, raceVars, cliVars, envVars, fbVars, dbVars, anaVars, schVars, fsVars, regVars>>
restOfCli == <<sqlVars, valVars, stoVars, filVars, raceVars, toolVars, envVars, fbVars, dbVars, anaVars, schVars, fsVars, regVars>>
restOfEnv == <<sqlVars, valVars, stoVars, filVars, raceVars, toolVars, cliVars, fbVars, dbVars, anaVars, schVars, fsVars, regVars>>
restOfFeedback == <<sqlVars, valVars, stoVars, filVars, raceVars, toolVars, cliVars, envVars, dbVars, anaVars, schVars, fsVars, regVars>>
restOfSettings == <<sqlVars, valVars, stoVars, filVars, raceVars, toolVars, cliVars, envVars, fbVars, anaVars, schVars, fsVars, regVars>>
restOfAnalysis == <<sqlVars, stoVars, filVars, raceVars, toolVars, cliVars, envVars, fbVars, dbVars, schVars, fsVars, regVars>>
restOfSchema == <<sqlVars, valVars, stoVars, filVars, raceVars, toolVars, cliVars, envVars, fbVars, dbVars, anaVars, fsVars, regVars>>
restOfFirestore == <<sqlVars, valVars, stoVars, filVars, raceVars, toolVars, cliVars, envVars, fbVars, dbVars, anaVars, schVars, regVars>>
restOfRegistry == <<sqlVars, valVars, stoVars, filVars, raceVars, toolVars, cliVars, envVars, fbVars, dbVars, anaVars, schVars, fsVars>>

\* Optional values
None == <<>>
Some(x) == <<x>>
IsNone(o) == o = <<>>
IsSome(o) == Len(o) = 1
Get(o) == o[1]

(***************************************************************************)
(* Text primitives                                                         *)
(***************************************************************************)
UpperLetters ==
    <<"A","B","C","D","E","F","G","H","I","J","K","L","M",
      "N","O","P","Q","R","S","T","U","V","W","X","Y","Z">>

LowerLetters ==
    <<"a","b","c","d","e","f","g","h","i","j","k","l","m",
      "n","o","p","q","r","s","t","u","v","w","x","y","z">>

Digits == <<"0","1","2","3","4","5","6","7","8","9">>

Range(f) == {f[i] : i \in DOMAIN f}

UpperSet == Range(UpperLetters)

\* str.lower() on the upper-case letters
LowerOf ==
    [c \in UpperSet |->
        LowerLetters[CHOOSE i \in DOMAIN UpperLetters : UpperLetters[i] = c]]

\* str.lower() on one character
LowerChar(c) == IF c \in UpperSet THEN LowerOf[c] ELSE c

\* str.lower()
LowerStr(s) == [i \in DOMAIN s |-> LowerChar(s[i])]

WordChars == UpperSet \cup Range(LowerLetters) \cup Range(Digits) \cup {"_"}

\* the regex class \w
IsWordChar(c) == c \in WordChars

\* characters str.strip() removes
Whitespace == {" ", "\n", "\t", "\r"}

\* s[i:i+n] == t
MatchAt(s, i, t) ==
    /\ i >= 1
    /\ i + Len(t) - 1 <= Len(s)
    /\ SubSeq(s, i, i + Len(t) - 1) = t

\* t in s
Contains(s, t) == \E i \in 1..(Len(s) + 1) : MatchAt(s, i, t)

\* s.count(t) for a text t that cannot overlap itself
Count(s, t) == Cardinality({i \in 1..Len(s) : MatchAt(s, i, t)})

\* str.replace(old, new): leftmost, non-overlapping occurrences
RECURSIVE Replace(_, _, _)
Replace(s, old, new) ==
    IF Len(s) < Len(old) THEN s
    ELSE IF MatchAt(s, 1, old)
         THEN new \o Replace(SubSeq(s, Len(old) + 1, Len(s)), old, new)
         ELSE <<s[1]>> \o Replace(Tail(s), old, new)

\* str.lstrip() / str.rstrip() / str.strip()
RECURSIVE LStrip(_)
LStrip(s) == IF s /= <<>> /\ s[1] \in Whitespace THEN LStrip(Tail(s)) ELSE s

RECURSIVE RStrip(_)
RStrip(s) ==
    IF s /= <<>> /\ s[Len(s)] \in Whitespace
    THEN RStrip(SubSeq(s, 1, Len(s) - 1)) ELSE s

Strip(s) == RStrip(LStrip(s))

\* str(n) for n >= 0, as the f-string renders max_rows
RECURSIVE IntToStr(_)
IntToStr(n) ==
    IF n < 10 THEN <<Digits[n + 1]>>
    ELSE IntToStr(n \div 10) \o <<Digits[(n % 10) + 1]>>

(***************************************************************************)
(* bigquery/tools.py: denylist and clean-up                                *)
(***************************************************************************)
\* default of NL2SQL_MAX_ROWS
DefaultMaxRows == 80

\* the alternation of DISALLOWED_DML_RE
DISALLOWED_KEYWORDS ==
    { <<"u","p","d","a","t","e">>,
      <<"d","e","l","e","t","e">>,
      <<"d","r","o","p">>,
      <<"i","n","s","e","r","t">>,
      <<"c","r","e","a","t","e">>,
      <<"a","l","t","e","r">>,
      <<"t","r","u","n","c","a","t","e">>,
      <<"m","e","r","g","e">> }

\* \w at position j of s (positions outside the text are not \w)
WordAt(s, j) == j \in 1..Len(s) /\ IsWordChar(s[j])

\* the regex assertion \b between positions p-1 and p
WordBoundary(s, p) == WordAt(s, p - 1) /= WordAt(s, p)

ReMatchAtNoBoundary(s, i) ==
    \E kw \in DISALLOWED_KEYWORDS :
        /\ i + Len(kw) - 1 <= Len(s)
        /\ LowerStr(SubSeq(s, i, i + Len(kw) - 1)) = kw

\* DISALLOWED_DML_RE matches at position i: (?i)\b(kw)\b
ReMatchAt(s, i) ==
    \E kw \in DISALLOWED_KEYWORDS :
        /\ i + Len(kw) - 1 <= Len(s)
        /\ LowerStr(SubSeq(s, i, i + Len(kw) - 1)) = kw
        /\ WordBoundary(s, i)
        /\ WordBoundary(s, i + Len(kw))

\* DISALLOWED_DML_RE.search(s) is not None
DISALLOWED_DML_RE(s) == \E i \in 1..Len(s) : ReMatchAt(s, i)

_is_disallowed_dml(sql_string) == DISALLOWED_DML_RE(sql_string)

BackslashQuote == <<"\\", "\"">>
BackslashNewline == <<"\\", "\n">>
BackslashApostrophe == <<"\\", "'">>
BackslashN == <<"\\", "n">>
LimitText == <<"l","i","m","i","t">>

\* the replace chain and strip of _cleanup_sql
Normalize(sql_string) ==
    Strip(Replace(Replace(Replace(Replace(sql_string,
        BackslashQuote, <<"\"">>),
        BackslashNewline, <<"\n">>),
        BackslashApostrophe, <<"'">>),
        BackslashN, <<"\n">>))

\* f" LIMIT {max_rows}"
LimitSuffix(max_rows) == <<" ","L","I","M","I","T"," ">> \o IntToStr(max_rows)

NeedsLimitAlways(cleaned) == TRUE

\* "limit" not in cleaned.lower()
NeedsLimit(cleaned) == ~Contains(LowerStr(cleaned), LimitText)

_cleanup_sql(sql_string, max_rows) ==
    LET cleaned == Normalize(sql_string)
    IN  IF NeedsLimit(cleaned) THEN cleaned \o LimitSuffix(max_rows) ELSE cleaned

(***************************************************************************)
(* Inputs of the SQL helpers: texts assembled from fragments               *)
(***************************************************************************)
MaxFragments == 3

SqlFragments ==
    { <<"u","p","d","a","t","e">>,
      <<"D","E","L","E","T","E">>,
      <<"D","r","o","p">>,
      <<"d">>,
      <<"_">>,
      <<" ">>,
      <<"l","i","m","i","t">>,
      <<"L","i","M","i","t">>,
      <<"\\">>,
      <<"n">>,
      <<"\"">> }

RECURSIVE TextsOf(_, _)
TextsOf(frags, n) ==
    IF n = 0 THEN {<<>>}
    ELSE LET shorter == TextsOf(frags, n - 1)
         IN  shorter \cup {t \o f : t \in shorter, f \in frags}

SqlInputs == TextsOf(SqlFragments, MaxFragments)

\* row caps handed to _cleanup_sql: none, a one-digit cap, the default
CleanupCaps == {0, 7, DefaultMaxRows}

InitSql ==
    /\ sql_in \in SqlInputs
    /\ cap_in = 0
    /\ sql_pc = "input"
    /\ dml_out = FALSE
    /\ cleaned_out = <<>>
    \* the other subsystems at rest
    /\ MAX_NUM_ROWS = DefaultMaxRows
    /\ state = [query_result |-> None]
    /\ call = None
    /\ blob = None
    /\ uuid_next = 0
    /\ op = None
    /\ listed = None
    /\ cfg_blob = None
    /\ pc = <<>>
    /\ job = <<>>
    /\ snap = <<>>
    /\ res = <<>>
    /\ wlog = <<>>
    /\ tool_call = None
    /\ cli_call = None
    /\ environ = <<>>
    /\ env_call = None
    /\ log_records = <<>>
    /\ fb_resp = None
    /\ dataset = 1
    /\ _database_settings = None
    /\ session_state = <<>>
    /\ refreshed = None
    /\ db_call = None
    /\ db_query_agent_output = None
    /\ data_analyzer_agent_output = None
    /\ da_call = None
    /\ schema_tables = <<>>
    /\ schema_call = None
    /\ fs_collection = <<>>
    /\ fs_call = None
    /\ registry_blob = None
    /\ reg_call = None

\* dml_out := _is_disallowed_dml(sql_in)
ApplyIsDisallowedDml ==
    /\ sql_pc = "input"
    /\ dml_out' = _is_disallowed_dml(sql_in)
    /\ sql_pc' = "checked"
    /\ UNCHANGED <<sql_in, cap_in, cleaned_out>>

\* cleaned_out := _cleanup_sql(sql_in, max_rows)
ApplyCleanupSql ==
    /\ sql_pc = "input"
    /\ \E max_rows \in CleanupCaps :
          /\ cap_in' = max_rows
          /\ cleaned_out' = _cleanup_sql(sql_in, max_rows)
    /\ sql_pc' = "cleaned"
    /\ UNCHANGED <<sql_in, dml_out>>

NextSql ==
    \/ ApplyIsDisallowedDml /\ UNCHANGED restOfSql
    \/ ApplyCleanupSql /\ UNCHANGED restOfSql

SpecSql == InitSql /\ [][NextSql]_vars

(***************************************************************************)
(* bigquery/tools.py: row formatting and run_bigquery_validation           *)
(***************************************************************************)
\* values of result fields: datetime.date, datetime.datetime (a subclass of
\* datetime.date), int, and the str that strftime produces
DateValue(y, m, d) == [type |-> "date", y |-> y, m |-> m, d |-> d]
DateTimeValue(y, m, d, hh) == [type |-> "datetime", y |-> y, m |-> m, d |-> d, hh |-> hh]
IntValue(n) == [type |-> "int", v |-> n]
StrValue(t) == [type |-> "str", text |-> t]

\* decimal rendering of n, zero-padded to w digits
RECURSIVE ZeroPad(_, _)
ZeroPad(t, w) == IF Len(t) >= w THEN t ELSE ZeroPad(<<"0">> \o t, w)

\* value.strftime("%Y-%m-%d")
Strftime(value) ==
    ZeroPad(IntToStr(value.y), 4) \o <<"-">> \o
    ZeroPad(IntToStr(value.m), 2) \o <<"-">> \o
    ZeroPad(IntToStr(value.d), 2)

\* isinstance(value, datetime.date)
IsInstanceOfDate(value) == value.type \in {"date", "datetime"}

\* the body of the inner loop of _format_bq_rows
FormatValue(value) ==
    IF IsInstanceOfDate(value) THEN StrValue(Strftime(value)) ELSE value

FormatRow(row) == [key \in DOMAIN row |-> FormatValue(row[key])]

\* the outer loop of _format_bq_rows from result row i on
RECURSIVE FormatLoop(_, _, _, _)
FormatLoop(results, i, rows, max_rows) ==
    IF i > Len(results) THEN rows
    ELSE LET appended == Append(rows, FormatRow(results[i]))
         IN  IF Len(appended) >= max_rows THEN appended
             ELSE FormatLoop(results, i + 1, appended, max_rows)

_format_bq_rows(results, max_rows) == FormatLoop(results, 1, <<>>, max_rows)

MsgDisallowed == <<"Invalid SQL: Contains disallowed DML/DDL operations.">>
MsgNoResults == <<"Valid SQL. Query executed successfully (no results).">>

\* f"Invalid SQL: {exc}"
MsgInvalid(exc) == <<"Invalid SQL: ", exc>>

\* What the client and the engine do with one submitted text:
\*   client_error  get_bq_client() raises, nothing is submitted
\*   query_error   client.query() raises
\*   result_error  query_job.result() raises
\*   iter_error    iterating the RowIterator raises
\*   ok            the job yields rows (with or without a schema)
MaxResultRows == 2
MaxCap == 2

RowPool ==
    { [day |-> DateValue(2024, 3, 9), n |-> IntValue(1)],
      [ts |-> DateTimeValue(2023, 12, 31, 23), n |-> IntValue(2)] }

RECURSIVE SeqsUpTo(_, _)
SeqsUpTo(S, n) ==
    IF n = 0 THEN {<<>>}
    ELSE LET shorter == SeqsUpTo(S, n - 1)
         IN  shorter \cup {Append(q, x) : q \in shorter, x \in S}

ResultSets == SeqsUpTo(RowPool, MaxResultRows)

EngineOutcomes ==
    {[kind |-> "query_error", exc |-> e, schema |-> TRUE, rows |-> <<>>] :
        e \in {"Syntax error", "Table not found"}}
    \cup {[kind |-> k, exc |-> "Timeout", schema |-> TRUE, rows |-> <<>>] :
        k \in {"client_error", "result_error", "iter_error"}}
    \cup {[kind |-> "ok", exc |-> "", schema |-> FALSE, rows |-> <<>>]}
    \cup {[kind |-> "ok", exc |-> "", schema |-> TRUE, rows |-> r] : r \in ResultSets}

\* the engine returns no more rows than the LIMIT that _cleanup_sql appended
EngineHonoursLimit(sql_string, max_rows, eng) ==
    NeedsLimit(Normalize(sql_string)) => Len(eng.rows) <= max_rows

ValidationQueries ==
    { <<"d">>,
      <<"d", " ">>,
      <<"D","r","o","p">>,
      <<"D","r","o","p","d">>,
      <<"d"," ","l","i","m","i","t">>,
      <<"\\","n","D","r","o","p">> }

InitValidation ==
    /\ MAX_NUM_ROWS \in 0..MaxCap
    /\ state = [query_result |-> None]
    /\ call = None
    \* the other subsystems at rest
    /\ sql_in = <<>>
    /\ cap_in = 0
    /\ sql_pc = "idle"
    /\ dml_out = FALSE
    /\ cleaned_out = <<>>
    /\ blob = None
    /\ uuid_next = 0
    /\ op = None
    /\ listed = None
    /\ cfg_blob = None
    /\ pc = <<>>
    /\ job = <<>>
    /\ snap = <<>>
    /\ res = <<>>
    /\ wlog = <<>>
    /\ tool_call = None
    /\ cli_call = None
    /\ environ = <<>>
    /\ env_call = None
    /\ log_records = <<>>
    /\ fb_resp = None
    /\ dataset = 1
    /\ _database_settings = None
    /\ session_state = <<>>
    /\ refreshed = None
    /\ db_call = None
    /\ db_query_agent_output = None
    /\ data_analyzer_agent_output = None
    /\ da_call = None
    /\ schema_tables = <<>>
    /\ schema_call = None
    /\ fs_collection = <<>>
    /\ fs_call = None
    /\ registry_blob = None
    /\ reg_call = None

CallRecord(sql_string, eng, final_result, submitted, before) ==
    [sql_string |-> sql_string, engine |-> eng, final_result |-> final_result,
     submitted |-> submitted, raised |-> FALSE, state_before |-> before]

NoEngine == [kind |-> "unused", exc |-> "", schema |-> FALSE, rows |-> <<>>]

SubmitRetrying(eng, cleaned_sql) ==
    IF eng.kind = "client_error" THEN <<>>
    ELSE IF eng.kind = "ok" THEN <<cleaned_sql>>
    ELSE <<cleaned_sql, cleaned_sql>>

\* the texts handed to client.query() during one call
Submit(eng, cleaned_sql) ==
    IF eng.kind = "client_error" THEN <<>> ELSE <<cleaned_sql>>

StateAfterRejectCleared(st) == [st EXCEPT !.query_result = None]

\* tool_context.state after the denylist return
StateAfterReject(st) == st

StateAfterExceptionCleared(st) == [st EXCEPT !.query_result = None]

\* tool_context.state after the except branch
StateAfterException(st) == st

\* rows = _format_bq_rows(results, MAX_NUM_ROWS) if results.schema else []
RowsOf(eng, max_rows) ==
    IF eng.schema THEN _format_bq_rows(eng.rows, max_rows) ELSE <<>>

SuccessMessageNever(rows) == None

\* error_message of a successful call
SuccessMessage(rows) == IF rows = <<>> THEN Some(MsgNoResults) ELSE None

run_bigquery_validation(sql_string) ==
    IF _is_disallowed_dml(sql_string)
    THEN /\ call' = Some(CallRecord(sql_string, NoEngine,
                [query_result |-> None, error_message |-> Some(MsgDisallowed)],
                <<>>, state))
         /\ state' = StateAfterReject(state)
    ELSE LET cleaned_sql == _cleanup_sql(sql_string, MAX_NUM_ROWS)
         IN  \E eng \in EngineOutcomes :
               /\ EngineHonoursLimit(sql_string, MAX_NUM_ROWS, eng)
               /\ IF eng.kind = "ok"
                  THEN LET rows == RowsOf(eng, MAX_NUM_ROWS)
                       IN  /\ state' = [state EXCEPT !.query_result = Some(rows)]
                           /\ call' = Some(CallRecord(sql_string, eng,
                                  [query_result |-> Some(rows),
                                   error_message |-> SuccessMessage(rows)],
                                  Submit(eng, cleaned_sql), state))
                  ELSE /\ state' = StateAfterException(state)
                       /\ call' = Some(CallRecord(sql_string, eng,
                              [query_result |-> None,
                               error_message |-> Some(MsgInvalid(eng.exc))],
                              Submit(eng, cleaned_sql), state))

RunBigqueryValidation ==
    /\ \E sql_string \in ValidationQueries : run_bigquery_validation(sql_string)
    /\ UNCHANGED MAX_NUM_ROWS

NextValidation == RunBigqueryValidation /\ UNCHANGED restOfValidation

SpecValidation == InitValidation /\ [][NextValidation]_vars

(***************************************************************************)
(* storage/utils.py and storage/tools.py: the strategy store               *)
(* A strategy is a dict, modelled as a function from its keys.  Ids are    *)
(* numbers: 0 stands for a falsy strategy_id ("" or None), 1, 2, ... are   *)
(* the values uuid4() returns, in the order drawn, and CustomIds are ids   *)
(* chosen by the caller.                                                   *)
(***************************************************************************)
MaxStrategies == 2
MaxUuid == 2

CustomIds == {100}
StrategyNames == {"n1", "n2"}

\* ids a caller can name: its own and the generated ones it has seen
KnownIds == CustomIds \cup (1..uuid_next)

\* dict.get(key), None when the key is absent
DictGet(d, key) == IF key \in DOMAIN d THEN Some(d[key]) ELSE None

\* {**a, **b}
DictMerge(a, b) ==
    [key \in DOMAIN a \cup DOMAIN b |-> IF key \in DOMAIN b THEN b[key] ELSE a[key]]

\* d[key] = value on a copy of d
DictSet(d, key, value) ==
    [k \in DOMAIN d \cup {key} |-> IF k = key THEN value ELSE d[k]]

\* truthiness of strategy_json.get("strategy_id")
Truthy(o) == IsSome(o) /\ Get(o) /= 0

ErrNotFound == "404 No such object"
ErrMissingId == "updated_strategy must contain 'strategy_id'"
ErrFileExists == "file already exists"
ErrStrategyNotFound == "Strategy not found"

\* get_strategies_file(): the parsed list, or NotFound raised
ReadOk == IsSome(blob)
Strategies == Get(blob)

IdsOf(strategies) ==
    {strategies[i]["strategy_id"] :
        i \in {j \in DOMAIN strategies : "strategy_id" \in DOMAIN strategies[j]}}

\* what a storage tool returns
ToolSuccess == [status |-> "success", strategy_id |-> None, error_message |-> None]
ToolCreated(id) == [status |-> "success", strategy_id |-> Some(id), error_message |-> None]
ToolError(text) == [status |-> "error", strategy_id |-> None, error_message |-> Some(text)]

\* the record of one mutating call: the util's return value (None when it
\* raised), the tool's result, the object before the call and the number of
\* uploads it made
OpRecord(name, arg, ret, raised, result, writes) ==
    [name |-> name, arg |-> arg, ret |-> ret, raised |-> raised,
     result |-> result, before |-> blob, writes |-> writes]

\* str(uuid.uuid4()): a value never returned before
Uuid4 == uuid_next + 1

\* new_id = strategy_json.get("strategy_id") or str(uuid.uuid4())
NewId(strategy_json) ==
    IF Truthy(DictGet(strategy_json, "strategy_id"))
    THEN strategy_json["strategy_id"] ELSE Uuid4

AppendedInFront(strategies, strategy) == <<strategy>> \o strategies

\* strategies.append(strategy_json)
Appended(strategies, strategy) == Append(strategies, strategy)

\* utils.create_strategy wrapped by tools.create_strategy
CreateStrategy ==
    \E strategy_json \in
          [{"strategy_name"} -> StrategyNames]
          \cup {DictSet([strategy_name |-> n], "strategy_id", id) :
                    n \in StrategyNames, id \in KnownIds \cup {0}} :
        /\ listed' = None
        /\ IF ~ReadOk
           THEN /\ op' = Some(OpRecord("create_strategy", strategy_json, None,
                          Some(ErrNotFound), ToolError(ErrNotFound), 0))
                /\ UNCHANGED <<blob, uuid_next>>
           ELSE LET new_id == NewId(strategy_json)
                    stored == DictSet(strategy_json, "strategy_id", new_id)
                IN  /\ Len(Strategies) < MaxStrategies
                    /\ new_id = Uuid4 => uuid_next < MaxUuid
                    /\ uuid_next' = IF new_id = Uuid4 THEN uuid_next + 1 ELSE uuid_next
                    /\ blob' = Some(Appended(Strategies, stored))
                    /\ op' = Some(OpRecord("create_strategy", strategy_json,
                              Some(new_id), None, ToolCreated(new_id), 1))

\* index of the first strategy with the id, 0 when there is none
FirstWithId(strategies, id) ==
    IF \E i \in DOMAIN strategies : DictGet(strategies[i], "strategy_id") = Some(id)
    THEN CHOOSE i \in DOMAIN strategies :
            /\ DictGet(strategies[i], "strategy_id") = Some(id)
            /\ \A j \in 1..(i - 1) : DictGet(strategies[j], "strategy_id") /= Some(id)
    ELSE 0

\* the updated flag of update_strategy_by_id
UpdateWrites(idx) == idx /= 0

\* utils.update_strategy_by_id wrapped by tools.update_strategy
UpdateStrategy ==
    \E updated_strategy \in
          [{"strategy_name"} -> StrategyNames]
          \cup {[strategy_id |-> id] : id \in KnownIds \cup (1..MaxUuid)}
          \cup {[strategy_id |-> id, strategy_name |-> n] :
                    id \in KnownIds \cup (1..MaxUuid), n \in StrategyNames} :
        /\ listed' = None
        /\ UNCHANGED uuid_next
        /\ IF "strategy_id" \notin DOMAIN updated_strategy
           THEN /\ op' = Some(OpRecord("update_strategy", updated_strategy, None,
                          Some(ErrMissingId), ToolError(ErrMissingId), 0))
                /\ UNCHANGED blob
           ELSE IF ~ReadOk
           THEN /\ op' = Some(OpRecord("update_strategy", updated_strategy, None,
                          Some(ErrNotFound), ToolError(ErrNotFound), 0))
                /\ UNCHANGED blob
           ELSE LET idx == FirstWithId(Strategies, updated_strategy["strategy_id"])
                IN  IF UpdateWrites(idx)
                    THEN /\ blob' = Some([Strategies EXCEPT
                                  ![idx] = DictMerge(Strategies[idx], updated_strategy)])
                         /\ op' = Some(OpRecord("update_strategy", updated_strategy,
                                   Some(TRUE), None, ToolSuccess, 1))
                    ELSE /\ UNCHANGED blob
                         /\ op' = Some(OpRecord("update_strategy", updated_strategy,
                                   Some(FALSE), None, ToolError(ErrStrategyNotFound), 0))

\* [s for s in strategies if s.get("strategy_id") != strategy_id]
RECURSIVE Filtered(_, _)
Filtered(strategies, id) ==
    IF strategies = <<>> THEN <<>>
    ELSE IF DictGet(strategies[1], "strategy_id") /= Some(id)
         THEN <<strategies[1]>> \o Filtered(Tail(strategies), id)
         ELSE Filtered(Tail(strategies), id)

DeleteWritesAlways(filtered, strategies) == TRUE

\* not (len(filtered) == len(strategies))
DeleteWrites(filtered, strategies) == Len(filtered) /= Len(strategies)

\* utils.delete_strategy_by_id wrapped by tools.delete_strategy
DeleteStrategy ==
    \E strategy_id \in KnownIds \cup (1..MaxUuid) :
        /\ listed' = None
        /\ UNCHANGED uuid_next
        /\ IF ~ReadOk
           THEN /\ op' = Some(OpRecord("delete_strategy", [strategy_id |-> strategy_id],
                          None, Some(ErrNotFound), ToolError(ErrNotFound), 0))
                /\ UNCHANGED blob
           ELSE LET filtered == Filtered(Strategies, strategy_id)
                IN  IF DeleteWrites(filtered, Strategies)
                    THEN /\ blob' = Some(filtered)
                         /\ op' = Some(OpRecord("delete_strategy",
                                   [strategy_id |-> strategy_id],
                                   Some(TRUE), None, ToolSuccess, 1))
                    ELSE /\ UNCHANGED blob
                         /\ op' = Some(OpRecord("delete_strategy",
                                   [strategy_id |-> strategy_id],
                                   Some(FALSE), None, ToolError(ErrStrategyNotFound), 0))

_blob_exists_never(object) == FALSE

\* blob.exists(client)
_blob_exists(object) == IsSome(object)

\* utils.create_strategy_file wrapped by tools.create_strategy_file_tool_fn
CreateStrategyFile ==
    /\ listed' = None
    /\ UNCHANGED uuid_next
    /\ IF _blob_exists(blob)
       THEN /\ op' = Some(OpRecord("create_strategy_file", <<>>, None,
                      Some(ErrFileExists), ToolError(ErrFileExists), 0))
            /\ UNCHANGED blob
       ELSE /\ blob' = Some(<<>>)
            /\ op' = Some(OpRecord("create_strategy_file", <<>>, Some(TRUE), None,
                      ToolSuccess, 1))

\* tools.get_all_strategies
GetAllStrategies ==
    /\ listed = None
    /\ listed' = Some(IF ReadOk
                      THEN [status |-> "success", strategies |-> Strategies,
                            error_message |-> None]
                      ELSE [status |-> "error", strategies |-> <<>>,
                            error_message |-> Some(ErrNotFound)])
    /\ UNCHANGED <<blob, uuid_next, op>>

InitStorage ==
    /\ blob \in {None, Some(<<>>)}
    /\ uuid_next = 0
    /\ op = None
    /\ listed = None
    \* the other subsystems at rest
    /\ sql_in = <<>>
    /\ cap_in = 0
    /\ sql_pc = "idle"
    /\ dml_out = FALSE
    /\ cleaned_out = <<>>
    /\ MAX_NUM_ROWS = DefaultMaxRows
    /\ state = [query_result |-> None]
    /\ call = None
    /\ cfg_blob = None
    /\ pc = <<>>
    /\ job = <<>>
    /\ snap = <<>>
    /\ res = <<>>
    /\ wlog = <<>>
    /\ tool_call = None
    /\ cli_call = None
    /\ environ = <<>>
    /\ env_call = None
    /\ log_records = <<>>
    /\ fb_resp = None
    /\ dataset = 1
    /\ _database_settings = None
    /\ session_state = <<>>
    /\ refreshed = None
    /\ db_call = None
    /\ db_query_agent_output = None
    /\ data_analyzer_agent_output = None
    /\ da_call = None
    /\ schema_tables = <<>>
    /\ schema_call = None
    /\ fs_collection = <<>>
    /\ fs_call = None
    /\ registry_blob = None
    /\ reg_call = None

NextStorage ==
    \/ CreateStrategy /\ UNCHANGED restOfStorage
    \/ UpdateStrategy /\ UNCHANGED restOfStorage
    \/ DeleteStrategy /\ UNCHANGED restOfStorage
    \/ CreateStrategyFile /\ UNCHANGED restOfStorage
    \/ GetAllStrategies /\ UNCHANGED restOfStorage

SpecStorage == InitStorage /\ [][NextStorage]_vars

(***************************************************************************)
(* storage/utils.py: create_business_config_file                           *)
(* JSON values are tagged: str (a text), int, bool, null, list.            *)
(***************************************************************************)
JStr(t) == [t |-> "str", v |-> t]
JInt(n) == [t |-> "int", v |-> n]
JBool(b) == [t |-> "bool", v |-> b]
JList(l) == [t |-> "list", v |-> l]
JNull == [t |-> "null"]

\* bool(value)
PyBool(value) ==
    CASE value.t = "bool" -> value.v
      [] value.t = "int" -> value.v /= 0
      [] value.t = "str" -> value.v /= <<>>
      [] value.t = "list" -> value.v /= <<>>
      [] OTHER -> FALSE

\* config.get(key, default)
GetOr(config, key, default) == IF key \in DOMAIN config THEN config[key] ELSE default

ErrInvalidName == "config must include a non-empty 'name' field"

NameOfUnstripped(config) ==
    IF "name" \in DOMAIN config /\ config["name"].t = "str"
    THEN config["name"].v ELSE <<>>

\* name = (config.get("name") or "").strip() if isinstance(config.get("name"), str)
\*        else None;  the empty text stands for every falsy name
NameOf(config) ==
    IF "name" \in DOMAIN config /\ config["name"].t = "str"
    THEN Strip(config["name"].v) ELSE <<>>

\* the payload dict of create_business_config_file
ConfigPayload(config, name) ==
    [name |-> JStr(name),
     business_description |-> GetOr(config, "business_description", JStr(<<>>)),
     budget |-> GetOr(config, "budget", JInt(0)),
     enable_budget_alerts |-> JBool(PyBool(GetOr(config, "enable_budget_alerts", JBool(FALSE)))),
     allowed_campaign_channels |-> GetOr(config, "allowed_campaign_channels", JList(<<>>))]

\* what create_strategy_file_tool_fn / create_business_config_file_tool_fn return
FileCreated(uri) == [status |-> "success", gcs_uri |-> Some(uri), error_message |-> None]
FileError(text) == [status |-> "error", gcs_uri |-> None, error_message |-> Some(text)]

\* the record of one create_business_config_file call: checks counts the
\* _blob_exists calls and writes the uploads it made
ConfigOpRecord(arg, raised, result, checks, writes) ==
    [name |-> "create_business_config_file", arg |-> arg,
     ret |-> IF raised = None THEN Some(TRUE) ELSE None, raised |-> raised,
     result |-> result, before |-> cfg_blob, checks |-> checks, writes |-> writes]

\* the config dicts a caller passes
ConfigNames ==
    { JNull, JInt(7), JStr(<<>>), JStr(<<" ", "\t">>),
      JStr(<<"A","c","m","e">>), JStr(<<" ","A","c","m","e"," ">>) }

OptionalValues ==
    [business_description |-> {JStr(<<"d">>)},
     budget |-> {JInt(5)},
     enable_budget_alerts |-> {JBool(TRUE), JStr(<<>>)},
     allowed_campaign_channels |-> {JList(<<"email">>)},
     owner |-> {JStr(<<"o">>)}]

\* dicts over the keys ks with the values each key allows
RECURSIVE DictsOver(_, _)
DictsOver(ks, allowed) ==
    IF ks = {} THEN {<<>>}
    ELSE LET k == CHOOSE x \in ks : TRUE
             rest == DictsOver(ks \ {k}, allowed)
         IN  {[key \in DOMAIN d \cup {k} |-> IF key = k THEN v ELSE d[key]] :
                 d \in rest, v \in allowed[k]}

\* the optional keys a caller supplies: none, one of them, or all
OptionalKeySets ==
    {ks \in SUBSET DOMAIN OptionalValues : Cardinality(ks) \in {0, 1, Cardinality(DOMAIN OptionalValues)}}

ConfigInputs ==
    UNION { DictsOver(ks \cup ns, [k \in ks \cup ns |->
                                    IF k = "name" THEN ConfigNames ELSE OptionalValues[k]]) :
            ks \in OptionalKeySets, ns \in {{}, {"name"}} }

\* utils.create_business_config_file wrapped by
\* tools.create_business_config_file_tool_fn
create_business_config_file(config) ==
    LET name == NameOf(config)
    IN  IF name = <<>>
        THEN /\ op' = Some(ConfigOpRecord(config, Some(ErrInvalidName),
                       FileError(ErrInvalidName), 0, 0))
             /\ UNCHANGED cfg_blob
        ELSE IF _blob_exists(cfg_blob)
        THEN /\ op' = Some(ConfigOpRecord(config, Some(ErrFileExists),
                       FileError(ErrFileExists), 1, 0))
             /\ UNCHANGED cfg_blob
        ELSE /\ cfg_blob' = Some(ConfigPayload(config, name))
             /\ op' = Some(ConfigOpRecord(config, None,
                       FileCreated("gs://bucket/business_config.json"), 1, 1))

CreateBusinessConfigFile ==
    /\ \E config \in ConfigInputs : create_business_config_file(config)
    /\ UNCHANGED <<blob, uuid_next, listed>>

InitFiles ==
    /\ blob \in {None, Some(<<>>), Some(<<[strategy_id |-> 100, strategy_name |-> "n1"]>>)}
    /\ uuid_next = 0
    /\ op = None
    /\ listed = None
    /\ cfg_blob = None
    \* the other subsystems at rest
    /\ sql_in = <<>>
    /\ cap_in = 0
    /\ sql_pc = "idle"
    /\ dml_out = FALSE
    /\ cleaned_out = <<>>
    /\ MAX_NUM_ROWS = DefaultMaxRows
    /\ state = [query_result |-> None]
    /\ call = None
    /\ pc = <<>>
    /\ job = <<>>
    /\ snap = <<>>
    /\ res = <<>>
    /\ wlog = <<>>
    /\ tool_call = None
    /\ cli_call = None
    /\ environ = <<>>
    /\ env_call = None
    /\ log_records = <<>>
    /\ fb_resp = None
    /\ dataset = 1
    /\ _database_settings = None
    /\ session_state = <<>>
    /\ refreshed = None
    /\ db_call = None
    /\ db_query_agent_output = None
    /\ data_analyzer_agent_output = None
    /\ da_call = None
    /\ schema_tables = <<>>
    /\ schema_call = None
    /\ fs_collection = <<>>
    /\ fs_call = None
    /\ registry_blob = None
    /\ reg_call = None

NextFiles ==
    \/ CreateStrategyFile /\ UNCHANGED <<cfg_blob, restOfFiles>>
    \/ CreateBusinessConfigFile /\ UNCHANGED restOfFiles

SpecFiles == InitFiles /\ [][NextFiles]_vars

(***************************************************************************)
(* Concurrent callers of the storage layer.  Each storage util is a        *)
(* download (or an existence check) followed by an upload, two separate    *)
(* requests to the object store with nothing held between them.            *)
(***************************************************************************)
MaxCallers == 2
Callers == 1..MaxCallers

StrategyJobs ==
    {[kind |-> "create_strategy", arg |-> [strategy_name |-> n]] : n \in StrategyNames}
    \cup {[kind |-> "delete_strategy", arg |-> [strategy_id |-> 1]]}

RaceConfigs ==
    { <<>>,
      [name |-> JStr(<<"A","c","m","e">>)],
      [name |-> JStr(<<"A","c","m","e">>), budget |-> JInt(5)] }

FileJobs ==
    {[kind |-> "create_strategy_file", arg |-> <<>>]}
    \cup {[kind |-> "create_business_config_file", arg |-> c] : c \in RaceConfigs}

\* the object a file creation is about
ObjectOf(kind) == IF kind = "create_business_config_file" THEN cfg_blob ELSE blob
ObjectName(kind) == IF kind = "create_business_config_file" THEN "config" ELSE "strategies"

Finish(p, result) ==
    /\ pc' = [pc EXCEPT ![p] = "done"]
    /\ res' = [res EXCEPT ![p] = Some(result)]

Requested(p, kind, step) ==
    wlog' = Append(wlog, [who |-> p, object |-> ObjectName(kind), step |-> step])

\* strategies = get_strategies_file()
RaceLoad(p) ==
    /\ pc[p] = "idle"
    /\ \E j \in StrategyJobs :
        /\ job' = [job EXCEPT ![p] = Some(j)]
        /\ IF ~ReadOk
           THEN /\ Finish(p, ToolError(ErrNotFound))
                /\ UNCHANGED <<snap, wlog>>
           ELSE /\ snap' = [snap EXCEPT ![p] = Some(Strategies)]
                /\ pc' = [pc EXCEPT ![p] = "loaded"]
                /\ Requested(p, j.kind, "read")
                /\ UNCHANGED res
    /\ UNCHANGED <<blob, cfg_blob, uuid_next>>

LocalStrategiesReread(p) == Strategies

\* the local list 'strategies' of a mutation between its download and its upload
LocalStrategies(p) == Get(snap[p])

\* the rest of create_strategy / delete_strategy_by_id up to _save_strategies
RaceSave(p) ==
    /\ pc[p] = "loaded"
    /\ LET j == Get(job[p])
           strategies == LocalStrategies(p)
       IN  IF j.kind = "create_strategy"
           THEN LET new_id == NewId(j.arg)
                    stored == DictSet(j.arg, "strategy_id", new_id)
                IN  /\ uuid_next' = IF new_id = Uuid4 THEN uuid_next + 1 ELSE uuid_next
                    /\ blob' = Some(Appended(strategies, stored))
                    /\ Requested(p, j.kind, "write")
                    /\ Finish(p, ToolCreated(new_id))
           ELSE LET filtered == Filtered(strategies, j.arg["strategy_id"])
                IN  /\ UNCHANGED uuid_next
                    /\ IF DeleteWrites(filtered, strategies)
                       THEN /\ blob' = Some(filtered)
                            /\ Requested(p, j.kind, "write")
                            /\ Finish(p, ToolSuccess)
                       ELSE /\ UNCHANGED <<blob, wlog>>
                            /\ Finish(p, ToolError(ErrStrategyNotFound))
    /\ UNCHANGED <<cfg_blob, job, snap>>

\* the name check and the _blob_exists call of a file creation
RaceCheck(p) ==
    /\ pc[p] = "idle"
    /\ \E j \in FileJobs :
        /\ job' = [job EXCEPT ![p] = Some(j)]
        /\ IF j.kind = "create_business_config_file" /\ NameOf(j.arg) = <<>>
           THEN /\ Finish(p, FileError(ErrInvalidName))
                /\ UNCHANGED <<snap, wlog>>
           ELSE /\ snap' = [snap EXCEPT ![p] = Some(_blob_exists(ObjectOf(j.kind)))]
                /\ pc' = [pc EXCEPT ![p] = "checked"]
                /\ Requested(p, j.kind, "read")
                /\ UNCHANGED res
    /\ UNCHANGED <<blob, cfg_blob, uuid_next>>

ExistedRechecked(p) == _blob_exists(ObjectOf(Get(job[p]).kind))

\* the value the 'if _blob_exists(...)' of a file creation tests
Existed(p) == Get(snap[p])

\* the rest of a file creation: raise FileExistsError, or upload
RaceUpload(p) ==
    /\ pc[p] = "checked"
    /\ LET j == Get(job[p])
       IN  IF Existed(p)
           THEN /\ Finish(p, FileError(ErrFileExists))
                /\ UNCHANGED <<blob, cfg_blob, wlog>>
           ELSE /\ Requested(p, j.kind, "write")
                /\ IF j.kind = "create_business_config_file"
                   THEN /\ cfg_blob' = Some(ConfigPayload(j.arg, NameOf(j.arg)))
                        /\ UNCHANGED blob
                        /\ Finish(p, FileCreated("gs://bucket/business_config.json"))
                   ELSE /\ blob' = Some(<<>>)
                        /\ UNCHANGED cfg_blob
                        /\ Finish(p, FileCreated("gs://bucket/strategies.json"))
    /\ UNCHANGED <<uuid_next, job, snap>>

InitRace ==
    /\ blob \in {None, Some(<<>>)}
    /\ uuid_next = 0
    /\ cfg_blob = None
    /\ pc = [p \in Callers |-> "idle"]
    /\ job = [p \in Callers |-> None]
    /\ snap = [p \in Callers |-> None]
    /\ res = [p \in Callers |-> None]
    /\ wlog = <<>>
    \* the other subsystems at rest
    /\ sql_in = <<>>
    /\ cap_in = 0
    /\ sql_pc = "idle"
    /\ dml_out = FALSE
    /\ cleaned_out = <<>>
    /\ MAX_NUM_ROWS = DefaultMaxRows
    /\ state = [query_result |-> None]
    /\ call = None
    /\ op = None
    /\ listed = None
    /\ tool_call = None
    /\ cli_call = None
    /\ environ = <<>>
    /\ env_call = None
    /\ log_records = <<>>
    /\ fb_resp = None
    /\ dataset = 1
    /\ _database_settings = None
    /\ session_state = <<>>
    /\ refreshed = None
    /\ db_call = None
    /\ db_query_agent_output = None
    /\ data_analyzer_agent_output = None
    /\ da_call = None
    /\ schema_tables = <<>>
    /\ schema_call = None
    /\ fs_collection = <<>>
    /\ fs_call = None
    /\ registry_blob = None
    /\ reg_call = None

NextRace ==
    \/ \E p \in Callers : RaceLoad(p) /\ UNCHANGED restOfRace
    \/ \E p \in Callers : RaceSave(p) /\ UNCHANGED restOfRace
    \/ \E p \in Callers : RaceCheck(p) /\ UNCHANGED restOfRace
    \/ \E p \in Callers : RaceUpload(p) /\ UNCHANGED restOfRace

SpecRace == InitRace /\ [][NextRace]_vars

(***************************************************************************)
(* storage/tools.py and resource/tools.py: the tool wrappers.  The call    *)
(* each wrapper makes either returns a value or raises an exception.       *)
(***************************************************************************)
StorageTools ==
    {"get_business_configuration", "get_all_strategies", "create_strategy",
     "update_strategy", "delete_strategy", "create_strategy_file",
     "create_business_config_file"}

DocumentTools ==
    {"fs_create_document", "fs_get_document", "fs_get_all_documents",
     "fs_update_document", "fs_update_document_field", "fs_delete_document"}

\* the exceptions the storage and Firestore calls raise
Exceptions ==
    {[type |-> "NotFound", text |-> ErrNotFound],
     [type |-> "ValueError", text |-> ErrMissingId],
     [type |-> "FileExistsError", text |-> ErrFileExists],
     [type |-> "PermissionDenied", text |-> "403 Missing or insufficient permissions"]}

Returns(value) == [kind |-> "returns", value |-> value]
Raises(exc) == [kind |-> "raises", exc |-> exc]

\* the values the wrapped call of each tool returns
ReturnValues(tool) ==
    CASE tool \in {"update_strategy", "delete_strategy"} -> {TRUE, FALSE}
      [] tool \in {"create_strategy", "fs_create_document"} -> {"id1"}
      [] tool \in {"create_strategy_file", "create_business_config_file"} -> {"gs://bucket/file"}
      [] tool = "fs_get_document" -> {None, Some([city |-> "Amsterdam"])}
      [] tool \in {"get_all_strategies", "fs_get_all_documents"} ->
            {<<>>, <<[id |-> "id1"]>>}
      [] tool = "get_business_configuration" -> {[name |-> "Acme"]}
      [] OTHER -> {None}

Outcomes(tool) ==
    {Returns(v) : v \in ReturnValues(tool)} \cup {Raises(e) : e \in Exceptions}

DocumentIds == {"d1", "d2"}

\* the arguments of each tool (the dict arguments are left out)
ToolArgs(tool) ==
    CASE tool \in {"fs_get_document", "fs_update_document", "fs_delete_document"} ->
            {[document_id |-> d] : d \in DocumentIds}
      [] tool = "fs_create_document" ->
            {[document_id |-> d] : d \in {None} \cup {Some(x) : x \in DocumentIds}}
      [] tool = "fs_update_document_field" ->
            {[document_id |-> d, field_name |-> "city", new_value |-> v] :
                d \in DocumentIds, v \in {"42", "Amsterdam"}}
      [] OTHER -> {<<>>}

\* the dict of the except branch
ErrorResult(tool, args, text) ==
    CASE tool = "fs_get_document" ->
            [status |-> "error", found |-> FALSE, document |-> None, error_message |-> text]
      [] tool = "fs_get_all_documents" ->
            [status |-> "error", documents |-> <<>>, error_message |-> text]
      [] tool \in {"fs_update_document", "fs_delete_document"} ->
            [status |-> "error", document_id |-> args.document_id, error_message |-> text]
      [] tool = "fs_update_document_field" ->
            [status |-> "error", document_id |-> args.document_id,
             updated_field |-> args.field_name, error_message |-> text]
      [] OTHER -> [status |-> "error", error_message |-> text]

\* the dict of the try branch
ValueResult(tool, args, value) ==
    CASE tool = "get_business_configuration" -> [status |-> "success", config |-> value]
      [] tool = "get_all_strategies" -> [status |-> "success", strategies |-> value]
      [] tool = "create_strategy" -> [status |-> "success", strategy_id |-> value]
      [] tool \in {"update_strategy", "delete_strategy"} ->
            IF ~value THEN [status |-> "error", error_message |-> ErrStrategyNotFound]
            ELSE [status |-> "success"]
      [] tool \in {"create_strategy_file", "create_business_config_file"} ->
            [status |-> "success", gcs_uri |-> value]
      [] tool = "fs_create_document" -> [status |-> "success", document_id |-> value]
      [] tool = "fs_get_document" ->
            [status |-> "success", found |-> IsSome(value), document |-> value]
      [] tool = "fs_get_all_documents" -> [status |-> "success", documents |-> value]
      [] tool = "fs_update_document_field" ->
            [status |-> "success", document_id |-> args.document_id,
             updated_field |-> args.field_name]
      [] OTHER -> [status |-> "success", document_id |-> args.document_id]

CatchesValueError(exc) == exc.type = "ValueError"

\* except Exception as e
CatchesException(exc) == TRUE

\* one call of a tool wrapper: what it returned, or the exception that left it
ToolCall(tool, args, outcome) ==
    [tool |-> tool, args |-> args, outcome |-> outcome,
     returned |->
        IF outcome.kind = "returns" THEN Some(ValueResult(tool, args, outcome.value))
        ELSE IF CatchesException(outcome.exc)
             THEN Some(ErrorResult(tool, args, outcome.exc.text)) ELSE None,
     propagated |->
        IF outcome.kind = "raises" /\ ~CatchesException(outcome.exc)
        THEN Some(outcome.exc) ELSE None]

CallStorageTool ==
    \E tool \in StorageTools : \E args \in ToolArgs(tool) : \E outcome \in Outcomes(tool) :
        tool_call' = Some(ToolCall(tool, args, outcome))

CallDocumentTool ==
    \E tool \in DocumentTools : \E args \in ToolArgs(tool) : \E outcome \in Outcomes(tool) :
        tool_call' = Some(ToolCall(tool, args, outcome))

InitTools ==
    /\ tool_call = None
    \* the other subsystems at rest
    /\ sql_in = <<>>
    /\ cap_in = 0
    /\ sql_pc = "idle"
    /\ dml_out = FALSE
    /\ cleaned_out = <<>>
    /\ MAX_NUM_ROWS = DefaultMaxRows
    /\ state = [query_result |-> None]
    /\ call = None
    /\ blob = None
    /\ uuid_next = 0
    /\ op = None
    /\ listed = None
    /\ cfg_blob = None
    /\ pc = <<>>
    /\ job = <<>>
    /\ snap = <<>>
    /\ res = <<>>
    /\ wlog = <<>>
    /\ cli_call = None
    /\ environ = <<>>
    /\ env_call = None
    /\ log_records = <<>>
    /\ fb_resp = None
    /\ dataset = 1
    /\ _database_settings = None
    /\ session_state = <<>>
    /\ refreshed = None
    /\ db_call = None
    /\ db_query_agent_output = None
    /\ data_analyzer_agent_output = None
    /\ da_call = None
    /\ schema_tables = <<>>
    /\ schema_call = None
    /\ fs_collection = <<>>
    /\ fs_call = None
    /\ registry_blob = None
    /\ reg_call = None

NextTools ==
    \/ CallStorageTool /\ UNCHANGED restOfTools
    \/ CallDocumentTool /\ UNCHANGED restOfTools

SpecTools == InitTools /\ [][NextTools]_vars

(***************************************************************************)
(* cli/utils.py and cli/tools.py: run_cli, run_gcloud, cli_run, cli_gcloud *)
(***************************************************************************)
MaxCmdLen == 3
CmdChars == {"a", " ", "'", "\"", "\\"}

\* the command strings a caller passes
Commands == UNION {[1..n -> CmdChars] : n \in 0..MaxCmdLen}

ErrNoClosingQuotation == "No closing quotation"
ErrNoEscapedCharacter == "No escaped character"

SplitOk(words) == [ok |-> TRUE, words |-> words]
SplitError(text) == [ok |-> FALSE, text |-> text]

\* the POSIX-mode state machine of shlex: mode "n" outside quotes, "s" and
\* "d" inside single and double quotes, "e" and "de" after a backslash
\* outside quotes and inside double quotes; has says a word is in progress
RECURSIVE ShlexFrom(_, _, _, _, _)
ShlexFrom(s, mode, word, has, words) ==
    IF s = <<>>
    THEN CASE mode = "n" -> SplitOk(IF has THEN Append(words, word) ELSE words)
           [] mode \in {"s", "d"} -> SplitError(ErrNoClosingQuotation)
           [] OTHER -> SplitError(ErrNoEscapedCharacter)
    ELSE LET c == Head(s)
             rest == Tail(s)
         IN  CASE mode = "n" /\ c \in Whitespace ->
                    ShlexFrom(rest, "n", <<>>, FALSE,
                              IF has THEN Append(words, word) ELSE words)
               [] mode = "n" /\ c = "'" -> ShlexFrom(rest, "s", word, TRUE, words)
               [] mode = "n" /\ c = "\"" -> ShlexFrom(rest, "d", word, TRUE, words)
               [] mode = "n" /\ c = "\\" -> ShlexFrom(rest, "e", word, TRUE, words)
               [] mode = "s" /\ c = "'" -> ShlexFrom(rest, "n", word, TRUE, words)
               [] mode = "d" /\ c = "\"" -> ShlexFrom(rest, "n", word, TRUE, words)
               [] mode = "d" /\ c = "\\" -> ShlexFrom(rest, "de", word, TRUE, words)
               [] mode = "e" -> ShlexFrom(rest, "n", Append(word, c), TRUE, words)
               [] mode = "de" /\ c \in {"\"", "\\"} ->
                    ShlexFrom(rest, "d", Append(word, c), TRUE, words)
               [] mode = "de" ->
                    ShlexFrom(rest, "d", Append(Append(word, "\\"), c), TRUE, words)
               [] OTHER -> ShlexFrom(rest, mode, Append(word, c), TRUE, words)

\* shlex.split(cmd)
ShlexSplit(cmd) == ShlexFrom(cmd, "n", <<>>, FALSE, <<>>)

\* the programs on the PATH of the host; gcloud may or may not be installed
Installed(gcloud_installed) ==
    {<<"a">>} \cup (IF gcloud_installed THEN {<<"gcloud">>} ELSE {})

ExitCodes == {0, 1, 2}

\* subprocess.run(args, ...): the exit code, or the exception of a process
\* that could not be started
SubprocessRun(args, gcloud_installed) ==
    IF args = <<>> THEN {Raises([type |-> "IndexError", text |-> "list index out of range"])}
    ELSE IF args[1] = <<>>
         THEN {Raises([type |-> "PermissionError", text |-> "Permission denied"])}
    ELSE IF args[1] \notin Installed(gcloud_installed)
         THEN {Raises([type |-> "FileNotFoundError", text |-> "No such file or directory"])}
    ELSE {Returns(code) : code \in ExitCodes}

CalledProcessError(code) ==
    Raises([type |-> "CalledProcessError", text |-> "non-zero exit status", returncode |-> code])

\* run_cli from subprocess.run on: the return code, or CalledProcessError
RunArgs(args, check, gcloud_installed) ==
    {IF ran.kind = "returns" /\ check /\ ran.value /= 0
     THEN CalledProcessError(ran.value) ELSE ran :
        ran \in SubprocessRun(args, gcloud_installed)}

\* run_cli(cmd: str)
run_cli(cmd, check, gcloud_installed) ==
    LET split == ShlexSplit(cmd)
    IN  IF ~split.ok THEN {Raises([type |-> "ValueError", text |-> split.text])}
        ELSE RunArgs(split.words, check, gcloud_installed)

\* run_gcloud(gcloud_args: str)
run_gcloud(gcloud_args, check, gcloud_installed) ==
    LET split == ShlexSplit(gcloud_args)
    IN  IF ~split.ok THEN {Raises([type |-> "ValueError", text |-> split.text])}
        ELSE RunArgs(<<<<"gcloud">>>> \o split.words, check, gcloud_installed)

\* except subprocess.CalledProcessError as e
CatchesCalledProcessError(exc) == exc.type = "CalledProcessError"

\* the try/except of cli_run and cli_gcloud around the outcome of the util
CliCall(tool, cmd, check, outcome) ==
    [tool |-> tool, cmd |-> cmd, check |-> check, outcome |-> outcome,
     returned |->
        IF outcome.kind = "returns"
        THEN Some([status |-> "success", return_code |-> outcome.value])
        ELSE IF CatchesCalledProcessError(outcome.exc)
             THEN Some([status |-> "error", return_code |-> outcome.exc.returncode])
             ELSE None,
     propagated |->
        IF outcome.kind = "raises" /\ ~CatchesCalledProcessError(outcome.exc)
        THEN Some(outcome.exc) ELSE None]

\* the cli tools keep nothing between calls: a behaviour is one call
cli_run ==
    /\ cli_call = None
    /\ \E cmd \in Commands : \E check \in BOOLEAN :
         \E outcome \in run_cli(cmd, check, FALSE) :
            cli_call' = Some(CliCall("cli_run", cmd, check, outcome))

cli_gcloud ==
    /\ cli_call = None
    /\ \E args \in Commands : \E check \in BOOLEAN : \E gcloud_installed \in BOOLEAN :
         \E outcome \in run_gcloud(args, check, gcloud_installed) :
            cli_call' = Some(CliCall("cli_gcloud", args, check, outcome))

InitCli ==
    /\ cli_call = None
    \* the other subsystems at rest
    /\ sql_in = <<>>
    /\ cap_in = 0
    /\ sql_pc = "idle"
    /\ dml_out = FALSE
    /\ cleaned_out = <<>>
    /\ MAX_NUM_ROWS = DefaultMaxRows
    /\ state = [query_result |-> None]
    /\ call = None
    /\ blob = None
    /\ uuid_next = 0
    /\ op = None
    /\ listed = None
    /\ cfg_blob = None
    /\ pc = <<>>
    /\ job = <<>>
    /\ snap = <<>>
    /\ res = <<>>
    /\ wlog = <<>>
    /\ tool_call = None
    /\ environ = <<>>
    /\ env_call = None
    /\ log_records = <<>>
    /\ fb_resp = None
    /\ dataset = 1
    /\ _database_settings = None
    /\ session_state = <<>>
    /\ refreshed = None
    /\ db_call = None
    /\ db_query_agent_output = None
    /\ data_analyzer_agent_output = None
    /\ da_call = None
    /\ schema_tables = <<>>
    /\ schema_call = None
    /\ fs_collection = <<>>
    /\ fs_call = None
    /\ registry_blob = None
    /\ reg_call = None

NextCli ==
    \/ cli_run /\ UNCHANGED restOfCli
    \/ cli_gcloud /\ UNCHANGED restOfCli

SpecCli == InitCli /\ [][NextCli]_vars

(***************************************************************************)
(* utils/load_env_vars.py: load_env_vars                                   *)
(***************************************************************************)
MaxLines == 2

\* the lines an environment file is made of
LinePool ==
    { <<>>,
      <<" ", "#", "c">>,
      <<"K">>,
      <<"K", "=", "v">>,
      <<" ", "K", " ", "=", " ", "v", " ">>,
      <<"K", "=", "'", "a", " ", "b", "'">>,
      <<"J", "=", "\"", "x", "\"">>,
      <<"K", "=", "a", "=", "b">>,
      <<"K", "=", "\"">>,
      <<"K", "=", "'", "a", "\"">>,
      <<"K", "=">>,
      <<"=", "v">> }

\* the file at file_path: None when it does not exist
EnvFiles == {None} \cup {Some(f) : f \in UNION {[1..n -> LinePool] : n \in 0..MaxLines}}

Quotes == {"'", "\""}

\* line.split("=", 1) of a line that contains "="
FirstEq(line) == CHOOSE i \in DOMAIN line : line[i] = "=" /\ \A j \in 1..(i - 1) : line[j] /= "="
SplitKey(line) == SubSeq(line, 1, FirstEq(line) - 1)
SplitValue(line) == SubSeq(line, FirstEq(line) + 1, Len(line))

UnquotedIfMatching(value) ==
    IF Len(value) >= 2 /\ value[1] \in Quotes /\ value[Len(value)] = value[1]
    THEN SubSeq(value, 2, Len(value) - 1) ELSE value

\* if value.startswith(("'", '"')) and value.endswith(("'", '"')): value = value[1:-1]
Unquoted(value) ==
    IF value /= <<>> /\ value[1] \in Quotes /\ value[Len(value)] \in Quotes
    THEN SubSeq(value, 2, Len(value) - 1) ELSE value

\* not line or line.startswith("#") or "=" not in line
Skipped(line) == line = <<>> \/ line[1] = "#" \/ ~Contains(line, <<"=">>)

ErrInvalidArgument == "[Errno 22] Invalid argument"

\* the for loop of load_env_vars from the lines left on; os.environ[key]
\* raises OSError for an empty name and the loop ends there
RECURSIVE LoadLines(_, _, _)
LoadLines(lines, env, count) ==
    IF lines = <<>> THEN [environ |-> env, ret |-> Some(count), raised |-> None]
    ELSE LET line == Strip(Head(lines))
         IN  IF Skipped(line) THEN LoadLines(Tail(lines), env, count)
             ELSE LET key == Strip(SplitKey(line))
                      value == Unquoted(Strip(SplitValue(line)))
                  IN  IF key = <<>>
                      THEN [environ |-> env, ret |-> None,
                            raised |-> Some(ErrInvalidArgument)]
                      ELSE LoadLines(Tail(lines), DictSet(env, key, value), count + 1)

\* load_env_vars(file_path)
load_env_vars(file) ==
    IF IsNone(file) THEN [environ |-> environ, ret |-> Some(0), raised |-> None]
    ELSE LoadLines(Get(file), environ, 0)

\* load_env_vars runs once, at startup
LoadEnvVars ==
    /\ env_call = None
    /\ \E file \in EnvFiles :
        LET done == load_env_vars(file)
        IN  /\ environ' = done.environ
            /\ env_call' = Some([file |-> file, before |-> environ,
                                 ret |-> done.ret, raised |-> done.raised])

InitEnv ==
    /\ environ \in {<<>>, [k \in {<<"K">>} |-> <<"o", "l", "d">>]}
    /\ env_call = None
    \* the other subsystems at rest
    /\ sql_in = <<>>
    /\ cap_in = 0
    /\ sql_pc = "idle"
    /\ dml_out = FALSE
    /\ cleaned_out = <<>>
    /\ MAX_NUM_ROWS = DefaultMaxRows
    /\ state = [query_result |-> None]
    /\ call = None
    /\ blob = None
    /\ uuid_next = 0
    /\ op = None
    /\ listed = None
    /\ cfg_blob = None
    /\ pc = <<>>
    /\ job = <<>>
    /\ snap = <<>>
    /\ res = <<>>
    /\ wlog = <<>>
    /\ tool_call = None
    /\ cli_call = None
    /\ log_records = <<>>
    /\ fb_resp = None
    /\ dataset = 1
    /\ _database_settings = None
    /\ session_state = <<>>
    /\ refreshed = None
    /\ db_call = None
    /\ db_query_agent_output = None
    /\ data_analyzer_agent_output = None
    /\ da_call = None
    /\ schema_tables = <<>>
    /\ schema_call = None
    /\ fs_collection = <<>>
    /\ fs_call = None
    /\ registry_blob = None
    /\ reg_call = None

NextEnv ==
    \/ LoadEnvVars /\ UNCHANGED restOfEnv

SpecEnv == InitEnv /\ [][NextEnv]_vars

(***************************************************************************)
(* server.py: collect_feedback                                             *)
(***************************************************************************)
MaxLogged == 3

\* the submissions a client posts
Feedbacks == {"f1", "f2", "f3"}

\* one POST /feedback: what the handler returned, or the exception that
\* left it
FeedbackCall(feedback, info_raised, returned, propagated) ==
    [feedback |-> feedback, info_raised |-> info_raised,
     returned |-> returned, propagated |-> propagated]

ErrLogging == "logging failed"

\* collect_feedback: logger.info either emits the record or raises, and so
\* does the logger.warning of the except branch
collect_feedback(feedback, info_raises, warning_raises) ==
    IF ~info_raises
    THEN /\ log_records' = Append(log_records, [level |-> "info", feedback |-> feedback])
         /\ fb_resp' = Some(FeedbackCall(feedback, FALSE, Some([status |-> "success"]), None))
    ELSE IF ~warning_raises
    THEN /\ log_records' = Append(log_records, [level |-> "warning", feedback |-> feedback])
         /\ fb_resp' = Some(FeedbackCall(feedback, TRUE, Some([status |-> "ok"]), None))
    ELSE /\ UNCHANGED log_records
         /\ fb_resp' = Some(FeedbackCall(feedback, TRUE, None, Some(ErrLogging)))

CollectFeedback ==
    /\ Len(log_records) < MaxLogged
    /\ \E feedback \in Feedbacks : \E info_raises \in BOOLEAN : \E warning_raises \in BOOLEAN :
        collect_feedback(feedback, info_raises, warning_raises)

InitFeedback ==
    /\ log_records = <<>>
    /\ fb_resp = None
    \* the other subsystems at rest
    /\ sql_in = <<>>
    /\ cap_in = 0
    /\ sql_pc = "idle"
    /\ dml_out = FALSE
    /\ cleaned_out = <<>>
    /\ MAX_NUM_ROWS = DefaultMaxRows
    /\ state = [query_result |-> None]
    /\ call = None
    /\ blob = None
    /\ uuid_next = 0
    /\ op = None
    /\ listed = None
    /\ cfg_blob = None
    /\ pc = <<>>
    /\ job = <<>>
    /\ snap = <<>>
    /\ res = <<>>
    /\ wlog = <<>>
    /\ tool_call = None
    /\ cli_call = None
    /\ environ = <<>>
    /\ env_call = None
    /\ dataset = 1
    /\ _database_settings = None
    /\ session_state = <<>>
    /\ refreshed = None
    /\ db_call = None
    /\ db_query_agent_output = None
    /\ data_analyzer_agent_output = None
    /\ da_call = None
    /\ schema_tables = <<>>
    /\ schema_call = None
    /\ fs_collection = <<>>
    /\ fs_call = None
    /\ registry_blob = None
    /\ reg_call = None

NextFeedback ==
    \/ CollectFeedback /\ UNCHANGED restOfFeedback

SpecFeedback == InitFeedback /\ [][NextFeedback]_vars

(***************************************************************************)
(* bigquery/tools.py: get_database_settings, update_database_settings, and *)
(* the two before-agent callbacks that call them                           *)
(***************************************************************************)
MaxVersion == 2

Sessions == {"s1", "s2"}

\* the settings dict built from the dataset as it is now
BuiltSettings == [bq_project_id |-> "p", bq_dataset_id |-> "d", bq_ddl_schema |-> dataset]

ErrBigQuery == "BigQuery metadata query failed"

\* the record of one call: which function, for which session (None for a
\* direct call), what it returned or raised, the cache before the call and
\* the schema builds (metadata and sampling queries) it started
DbCall(fn, session, returned, raised, builds) ==
    [fn |-> fn, session |-> session, returned |-> returned, raised |-> raised,
     cache_before |-> _database_settings, builds |-> builds]

\* update_database_settings(): the rebuilt settings, or the exception of a
\* failed query; it assigns nothing
update_database_settings(fails) == IF fails THEN Raises(ErrBigQuery) ELSE Returns(BuiltSettings)

CacheHitNever(cache) == FALSE

\* not (_database_settings is None)
CacheHit(cache) == IsSome(cache)

\* get_database_settings(): outcome, cache afterwards, builds started
get_database_settings(fails) ==
    IF CacheHit(_database_settings)
    THEN [outcome |-> Returns(Get(_database_settings)), cache |-> _database_settings,
          builds |-> 0]
    ELSE LET built == update_database_settings(fails)
         IN  IF built.kind = "raises"
             THEN [outcome |-> built, cache |-> _database_settings, builds |-> 1]
             ELSE [outcome |-> built, cache |-> Some(built.value), builds |-> 1]

\* the schema of the dataset changes in BigQuery
ChangeDataset ==
    /\ dataset < MaxVersion
    /\ dataset' = dataset + 1
    /\ UNCHANGED <<_database_settings, session_state, refreshed, db_call>>

GetDatabaseSettings ==
    \E fails \in BOOLEAN :
        LET got == get_database_settings(fails)
        IN  /\ _database_settings' = got.cache
            /\ db_call' = Some(DbCall("get_database_settings", None,
                   IF got.outcome.kind = "returns" THEN Some(got.outcome.value) ELSE None,
                   IF got.outcome.kind = "raises" THEN Some(got.outcome.exc) ELSE None,
                   got.builds))
            /\ UNCHANGED <<dataset, session_state, refreshed>>

UpdateDatabaseSettings ==
    \E fails \in BOOLEAN :
        LET built == update_database_settings(fails)
        IN  /\ db_call' = Some(DbCall("update_database_settings", None,
                   IF built.kind = "returns" THEN Some(built.value) ELSE None,
                   IF built.kind = "raises" THEN Some(built.exc) ELSE None, 1))
            /\ refreshed' = IF built.kind = "returns" THEN Some(built.value) ELSE refreshed
            /\ UNCHANGED <<dataset, _database_settings, session_state>>

ErrKeyError == "KeyError: 'all_db_settings'"

\* data_analysis/agent.py setup_before_agent_call
DataAnalysisBeforeAgent ==
    \E session \in Sessions : \E fails \in BOOLEAN :
        LET st == session_state[session]
            all_db_settings == IsNone(st.database_settings) \/ st.all_db_settings
            got == get_database_settings(fails)
        IN  /\ UNCHANGED <<dataset, refreshed>>
            /\ IF ~all_db_settings
               THEN /\ db_call' = Some(DbCall("data_analysis.setup_before_agent_call",
                          Some(session), None, Some(ErrKeyError), 0))
                    /\ UNCHANGED <<_database_settings, session_state>>
               ELSE /\ _database_settings' = got.cache
                    /\ session_state' = [session_state EXCEPT ![session] =
                          [database_settings |->
                              IF got.outcome.kind = "returns" THEN Some(got.outcome.value)
                              ELSE st.database_settings,
                           all_db_settings |-> TRUE]]
                    /\ db_call' = Some(DbCall("data_analysis.setup_before_agent_call",
                          Some(session),
                          IF got.outcome.kind = "returns" THEN Some(got.outcome.value) ELSE None,
                          IF got.outcome.kind = "raises" THEN Some(got.outcome.exc) ELSE None,
                          got.builds))

\* bigquery/agent.py setup_before_agent_call: get_database_settings is
\* called only when the session has no database_settings yet
BigqueryBeforeAgent ==
    \E session \in Sessions : \E fails \in BOOLEAN :
        LET st == session_state[session]
            got == get_database_settings(fails)
        IN  /\ IsNone(st.database_settings)
            /\ UNCHANGED <<dataset, refreshed>>
            /\ _database_settings' = got.cache
            /\ session_state' = [session_state EXCEPT ![session].database_settings =
                  IF got.outcome.kind = "returns" THEN Some(got.outcome.value) ELSE None]
            /\ db_call' = Some(DbCall("bigquery.setup_before_agent_call", Some(session),
                  IF got.outcome.kind = "returns" THEN Some(got.outcome.value) ELSE None,
                  IF got.outcome.kind = "raises" THEN Some(got.outcome.exc) ELSE None,
                  got.builds))

InitSettings ==
    /\ dataset = 1
    /\ _database_settings = None
    /\ session_state = [s \in Sessions |-> [database_settings |-> None, all_db_settings |-> FALSE]]
    /\ refreshed = None
    /\ db_call = None
    \* the other subsystems at rest
    /\ sql_in = <<>>
    /\ cap_in = 0
    /\ sql_pc = "idle"
    /\ dml_out = FALSE
    /\ cleaned_out = <<>>
    /\ MAX_NUM_ROWS = DefaultMaxRows
    /\ state = [query_result |-> None]
    /\ call = None
    /\ blob = None
    /\ uuid_next = 0
    /\ op = None
    /\ listed = None
    /\ cfg_blob = None
    /\ pc = <<>>
    /\ job = <<>>
    /\ snap = <<>>
    /\ res = <<>>
    /\ wlog = <<>>
    /\ tool_call = None
    /\ cli_call = None
    /\ environ = <<>>
    /\ env_call = None
    /\ log_records = <<>>
    /\ fb_resp = None
    /\ db_query_agent_output = None
    /\ data_analyzer_agent_output = None
    /\ da_call = None
    /\ schema_tables = <<>>
    /\ schema_call = None
    /\ fs_collection = <<>>
    /\ fs_call = None
    /\ registry_blob = None
    /\ reg_call = None

NextSettings ==
    \/ ChangeDataset /\ UNCHANGED restOfSettings
    \/ GetDatabaseSettings /\ UNCHANGED restOfSettings
    \/ UpdateDatabaseSettings /\ UNCHANGED restOfSettings
    \/ DataAnalysisBeforeAgent /\ UNCHANGED restOfSettings
    \/ BigqueryBeforeAgent /\ UNCHANGED restOfSettings

SpecSettings == InitSettings /\ [][NextSettings]_vars

(***************************************************************************)
(* data_analysis/tools.py: call_db_query_agent, call_data_analyzer_agent   *)
(* on the session state run_bigquery_validation writes                     *)
(***************************************************************************)
Questions == {"N/A", "What is the average?"}

\* what the db query agent answers
DbAgentOutputs == {"", "3 rows found"}

MsgNoQueryResult == "No query_result found in state. Skipping Python analysis."
MsgZeroRows == "Query executed successfully but returned 0 rows. Skipping Python analysis."

\* tool_context.state.get("db_query_agent_output", "")
DbOut == IF IsSome(db_query_agent_output) THEN Get(db_query_agent_output) ELSE ""

\* db_out or msg
OrMsg(db_out, msg) == IF db_out /= "" THEN db_out ELSE msg

AnalyzerNeededUnlessNA(question, input_data) == question /= "N/A"

\* none of the three early returns of call_data_analyzer_agent is taken
AnalyzerNeeded(question, input_data) ==
    /\ question /= "N/A"
    /\ IsSome(input_data)
    /\ Get(input_data) /= <<>>

\* the record of one call_data_analyzer_agent call: the data handed to the
\* analyzer (None when it was not invoked), what the tool returned or raised
DaCall(question, passed, returned, raised) ==
    [question |-> question, passed |-> passed, returned |-> returned, raised |-> raised,
     query_result_before |-> state.query_result,
     db_out_before |-> db_query_agent_output,
     output_before |-> data_analyzer_agent_output]

\* call_db_query_agent: the agent answers, or its run raises
CallDbQueryAgent ==
    /\ da_call = None
    /\ \E out \in DbAgentOutputs : \E fails \in BOOLEAN :
          db_query_agent_output' = IF fails THEN db_query_agent_output ELSE Some(out)
    /\ UNCHANGED <<data_analyzer_agent_output, da_call, valVars>>

call_data_analyzer_agent(question, analyzer) ==
    LET input_data == state.query_result
    IN  IF ~AnalyzerNeeded(question, input_data)
        THEN /\ da_call' = Some(DaCall(question, None,
                    Some(IF question = "N/A" THEN DbOut
                         ELSE IF IsNone(input_data) THEN OrMsg(DbOut, MsgNoQueryResult)
                         ELSE OrMsg(DbOut, MsgZeroRows)), None))
             /\ UNCHANGED data_analyzer_agent_output
        ELSE IF analyzer.kind = "raises"
        THEN /\ da_call' = Some(DaCall(question, Some(input_data), None, Some(analyzer.exc)))
             /\ UNCHANGED data_analyzer_agent_output
        ELSE /\ data_analyzer_agent_output' = Some(analyzer.value)
             /\ da_call' = Some(DaCall(question, Some(input_data), Some(analyzer.value), None))

CallDataAnalyzerAgent ==
    /\ da_call = None
    /\ \E question \in Questions :
          \E analyzer \in {Returns("the average is 2"), Returns("no trend"),
                           Raises("analyzer failed")} :
              call_data_analyzer_agent(question, analyzer)
    /\ UNCHANGED <<db_query_agent_output, valVars>>

InitAnalysis ==
    /\ MAX_NUM_ROWS = DefaultMaxRows
    /\ state = [query_result |-> None]
    /\ call = None
    /\ db_query_agent_output = None
    /\ data_analyzer_agent_output = None
    /\ da_call = None
    \* the other subsystems at rest
    /\ sql_in = <<>>
    /\ cap_in = 0
    /\ sql_pc = "idle"
    /\ dml_out = FALSE
    /\ cleaned_out = <<>>
    /\ blob = None
    /\ uuid_next = 0
    /\ op = None
    /\ listed = None
    /\ cfg_blob = None
    /\ pc = <<>>
    /\ job = <<>>
    /\ snap = <<>>
    /\ res = <<>>
    /\ wlog = <<>>
    /\ tool_call = None
    /\ cli_call = None
    /\ environ = <<>>
    /\ env_call = None
    /\ log_records = <<>>
    /\ fb_resp = None
    /\ dataset = 1
    /\ _database_settings = None
    /\ session_state = <<>>
    /\ refreshed = None
    /\ db_call = None
    /\ schema_tables = <<>>
    /\ schema_call = None
    /\ fs_collection = <<>>
    /\ fs_call = None
    /\ registry_blob = None
    /\ reg_call = None

\* a behaviour is any sequence of validations and db agent calls followed by
\* one call of the analyzer tool
NextAnalysis ==
    \/ da_call = None /\ RunBigqueryValidation /\ UNCHANGED <<anaVars, restOfAnalysis>>
    \/ CallDbQueryAgent /\ UNCHANGED restOfAnalysis
    \/ CallDataAnalyzerAgent /\ UNCHANGED restOfAnalysis

SpecAnalysis == InitAnalysis /\ [][NextAnalysis]_vars

(***************************************************************************)
(* bigquery/tools.py: get_bigquery_schema.  The DDL text is kept as the    *)
(* sequence of its blocks, one record per ddl_statements entry.            *)
(***************************************************************************)
MaxTables == 2
SampleLimit == 5

Table(type, columns, rows) ==
    [table_type |-> type, columns |-> columns, rows |-> rows,
     view_query |-> None, external_data_configuration |-> None, gone |-> FALSE]

ExternalConfig(source_format) ==
    Some([source_format |-> source_format, connection_id |-> "conn",
          source_uris |-> <<"gs://lake/t">>])

\* the tables a dataset is made of; a stored row is "text" when all its
\* values are scalars, and "array" when it holds an array of several
\* elements (a REPEATED column)
TablePool ==
    { Table("TABLE", <<"id">>, <<>>),
      Table("TABLE", <<"id", "name">>, <<"text", "text", "text", "text", "text", "text">>),
      Table("TABLE", <<"tags">>, <<"text", "array">>),
      [Table("TABLE", <<"id">>, <<"text">>) EXCEPT !.gone = TRUE],
      [Table("VIEW", <<"id">>, <<>>) EXCEPT !.view_query = Some("SELECT 1")],
      [Table("EXTERNAL", <<"id">>, <<>>) EXCEPT !.external_data_configuration = ExternalConfig("ICEBERG")],
      [Table("EXTERNAL", <<"id">>, <<>>) EXCEPT !.external_data_configuration = ExternalConfig("CSV")],
      Table("EXTERNAL", <<"id">>, <<>>),
      Table("MATERIALIZED_VIEW", <<"id">>, <<>>),
      Table("SNAPSHOT", <<"id">>, <<>>) }

Datasets == UNION {[1..n -> TablePool] : n \in 0..MaxTables}

ViewBlock(i, table) == [kind |-> "VIEW", table |-> i, view_query |-> Get(table.view_query)]
ExternalBlock(i, table) ==
    [kind |-> "EXTERNAL", table |-> i, columns |-> table.columns,
     connection_id |-> Get(table.external_data_configuration).connection_id,
     uris |-> Get(table.external_data_configuration).source_uris]
TableBlock(i, columns, header, inserts, note) ==
    [kind |-> "TABLE", table |-> i, columns |-> columns, header |-> header,
     inserts |-> inserts, note |-> note]

\* SELECT * FROM table LIMIT 5
SampleRows(table) ==
    SubSeq(table.rows, 1, IF Len(table.rows) < SampleLimit THEN Len(table.rows) ELSE SampleLimit)

\* pd.isna(value) of an array of several elements is an array, and its truth
\* value raises ValueError: the number of rows rendered before that happens
RowsRendered(df) ==
    IF \E k \in DOMAIN df : df[k] = "array"
    THEN (CHOOSE k \in DOMAIN df : df[k] = "array" /\ \A m \in 1..(k - 1) : df[m] /= "array") - 1
    ELSE Len(df)

SampleFailureBlockWithoutColumns(i, table) == TableBlock(i, <<>>, FALSE, 0, TRUE)

\* the block when client.query(sample_query).to_dataframe() raises
SampleFailureBlock(i, table) == TableBlock(i, table.columns, FALSE, 0, TRUE)

\* _ddl_for_table_with_samples
_ddl_for_table_with_samples(i, table, sample_fails) ==
    IF sample_fails THEN SampleFailureBlock(i, table)
    ELSE LET df == SampleRows(table)
         IN  TableBlock(i, table.columns, df /= <<>>, RowsRendered(df),
                        RowsRendered(df) < Len(df))

IsIcebergAlways(cfg) == IsSome(cfg)

\* cfg and cfg.source_format == "ICEBERG"
IsIceberg(cfg) == IsSome(cfg) /\ Get(cfg).source_format = "ICEBERG"

\* the body of the for loop of get_bigquery_schema for one table
BlocksOf(i, table, sample_fails) ==
    CASE table.table_type = "VIEW" -> <<ViewBlock(i, table)>>
      [] table.table_type = "EXTERNAL" ->
            IF IsIceberg(table.external_data_configuration) THEN <<ExternalBlock(i, table)>> ELSE <<>>
      [] table.table_type = "TABLE" -> <<_ddl_for_table_with_samples(i, table, sample_fails)>>
      [] OTHER -> <<>>

\* the for loop from table i on; client.get_table raises for a table that
\* is gone and the exception leaves get_bigquery_schema
RECURSIVE SchemaFrom(_, _, _, _)
SchemaFrom(tables, i, failing, ddl_statements) ==
    IF i > Len(tables) THEN Returns(ddl_statements)
    ELSE IF tables[i].gone THEN Raises("404 Not found: Table")
    ELSE SchemaFrom(tables, i + 1, failing,
                    ddl_statements \o BlocksOf(i, tables[i], i \in failing))

\* get_bigquery_schema: metadata_fails says the INFORMATION_SCHEMA query
\* raises, failing is the set of tables whose sampling query raises
get_bigquery_schema(tables, metadata_fails, failing) ==
    IF metadata_fails THEN Raises("403 Access Denied")
    ELSE SchemaFrom(tables, 1, failing, <<>>)

GetBigquerySchema ==
    /\ schema_call = None
    /\ \E metadata_fails \in BOOLEAN : \E failing \in SUBSET DOMAIN schema_tables :
          schema_call' = Some([metadata_fails |-> metadata_fails, failing |-> failing,
                               outcome |-> get_bigquery_schema(schema_tables, metadata_fails,
                                                               failing)])
    /\ UNCHANGED schema_tables

InitSchema ==
    /\ schema_tables \in Datasets
    /\ schema_call = None
    \* the other subsystems at rest
    /\ sql_in = <<>>
    /\ cap_in = 0
    /\ sql_pc = "idle"
    /\ dml_out = FALSE
    /\ cleaned_out = <<>>
    /\ MAX_NUM_ROWS = DefaultMaxRows
    /\ state = [query_result |-> None]
    /\ call = None
    /\ blob = None
    /\ uuid_next = 0
    /\ op = None
    /\ listed = None
    /\ cfg_blob = None
    /\ pc = <<>>
    /\ job = <<>>
    /\ snap = <<>>
    /\ res = <<>>
    /\ wlog = <<>>
    /\ tool_call = None
    /\ cli_call = None
    /\ environ = <<>>
    /\ env_call = None
    /\ log_records = <<>>
    /\ fb_resp = None
    /\ dataset = 1
    /\ _database_settings = None
    /\ session_state = <<>>
    /\ refreshed = None
    /\ db_call = None
    /\ db_query_agent_output = None
    /\ data_analyzer_agent_output = None
    /\ da_call = None
    /\ fs_collection = <<>>
    /\ fs_call = None
    /\ registry_blob = None
    /\ reg_call = None

NextSchema ==
    \/ GetBigquerySchema /\ UNCHANGED restOfSchema

SpecSchema == InitSchema /\ [][NextSchema]_vars

(***************************************************************************)
(* resource/utils/firestore/dao.py: get_all_documents, and its tool        *)
(* wrapper fs_get_all_documents of resource/tools.py.  A document is a     *)
(* function from its field names to their values.                          *)
(***************************************************************************)
MaxDocs == 2

SnapshotIds == {"d1", "d2", "d3"}

EmptyDocument == <<>>

DocumentContents ==
    { EmptyDocument,
      [name |-> "disk"],
      [id |-> "legacy-7"],
      [id |-> "d2", name |-> "disk"] }

Collections ==
    { c \in UNION {[1..n -> [id : SnapshotIds, data : DocumentContents]] : n \in 0..MaxDocs} :
        \A i, j \in DOMAIN c : c[i].id = c[j].id => i = j }

\* {"id": snap.id, **data}: the unpacked fields come after the "id" key and
\* a field of the same name replaces it
WithId(snap_id, data) ==
    [k \in {"id"} \cup DOMAIN data |-> IF k \in DOMAIN data THEN data[k] ELSE snap_id]

\* get_all_documents
get_all_documents(snaps, include_ids) ==
    [i \in DOMAIN snaps |->
        IF include_ids THEN WithId(snaps[i].id, snaps[i].data) ELSE snaps[i].data]

\* fs_get_all_documents: any exception of the listing becomes an error result
fs_get_all_documents(snaps, include_ids, stream_fails) ==
    IF stream_fails
    THEN [status |-> "error", documents |-> <<>>, error_message |-> Some("503 unavailable")]
    ELSE [status |-> "success", documents |-> get_all_documents(snaps, include_ids),
          error_message |-> None]

FsGetAllDocuments ==
    /\ fs_call = None
    /\ \E include_ids \in BOOLEAN : \E stream_fails \in BOOLEAN :
          fs_call' = Some([include_ids |-> include_ids,
                           result |-> fs_get_all_documents(fs_collection, include_ids,
                                                           stream_fails)])
    /\ UNCHANGED fs_collection

InitFirestore ==
    /\ fs_collection \in Collections
    /\ fs_call = None
    \* the other subsystems at rest
    /\ sql_in = <<>>
    /\ cap_in = 0
    /\ sql_pc = "idle"
    /\ dml_out = FALSE
    /\ cleaned_out = <<>>
    /\ MAX_NUM_ROWS = DefaultMaxRows
    /\ state = [query_result |-> None]
    /\ call = None
    /\ blob = None
    /\ uuid_next = 0
    /\ op = None
    /\ listed = None
    /\ cfg_blob = None
    /\ pc = <<>>
    /\ job = <<>>
    /\ snap = <<>>
    /\ res = <<>>
    /\ wlog = <<>>
    /\ tool_call = None
    /\ cli_call = None
    /\ environ = <<>>
    /\ env_call = None
    /\ log_records = <<>>
    /\ fb_resp = None
    /\ dataset = 1
    /\ _database_settings = None
    /\ session_state = <<>>
    /\ refreshed = None
    /\ db_call = None
    /\ db_query_agent_output = None
    /\ data_analyzer_agent_output = None
    /\ da_call = None
    /\ schema_tables = <<>>
    /\ schema_call = None
    /\ registry_blob = None
    /\ reg_call = None

NextFirestore ==
    \/ FsGetAllDocuments /\ UNCHANGED restOfFirestore

SpecFirestore == InitFirestore /\ [][NextFirestore]_vars

(***************************************************************************)
(* resource/utils/utils.py: the resource registry, one JSON object of the  *)
(* bucket.  A resource is a function from its field names to their values. *)
(***************************************************************************)
MaxResourceIds == 2

IdNames == <<"bucket/assets", "firestore_db/(default)", "cloud_function/notify", "topic/events">>

ResourceIds == {IdNames[i] : i \in 1..MaxResourceIds}

\* _now_iso: the clock is read at one instant
NowIso == "2025-08-10T12:00:00Z"

\* _empty_registry
_empty_registry ==
    [schema_version |-> "1.0", project_id |-> "", default_location |-> "",
     environment |-> "dev", resources |-> <<>>]

\* gcs_download_json: the parsed object, or an exception when the object is
\* missing or the request fails
DownloadRegistry(download_fails) ==
    IF download_fails \/ registry_blob = None THEN Raises("download failed")
    ELSE Returns(Get(registry_blob))

\* _load_registry
_load_registry(download) ==
    IF download.kind = "raises" THEN _empty_registry
    ELSE IF "resources" \notin DOMAIN download.value THEN _empty_registry
    ELSE download.value

\* _find_resource_index: 0 stands for None
_find_resource_index(registry, resource_id) ==
    LET rs == registry.resources
    IN  IF \E i \in DOMAIN rs : DictGet(rs[i], "id") = Some(resource_id)
        THEN CHOOSE i \in DOMAIN rs :
                /\ DictGet(rs[i], "id") = Some(resource_id)
                /\ \A j \in 1..(i - 1) : DictGet(rs[j], "id") /= Some(resource_id)
        ELSE 0

\* resource.setdefault(key, value)
SetDefault(resource, key, value) ==
    IF key \in DOMAIN resource THEN resource ELSE DictSet(resource, key, value)

\* not resource.get(k), for the text fields id, type and name
FieldMissing(resource, k) == k \notin DOMAIN resource \/ resource[k] = ""

\* _validate_resource_payload: the resource with its defaults, or ValueError
_validate_resource_payload(resource) ==
    IF \E k \in {"id", "type", "name"} : FieldMissing(resource, k)
    THEN Raises("ValueError")
    ELSE Returns(
           SetDefault(SetDefault(SetDefault(SetDefault(SetDefault(SetDefault(SetDefault(
             resource, "location", ""), "unique", FALSE), "purpose", ""),
             "config", <<>>), "outputs", <<>>), "depends_on", <<>>), "tags", <<>>))

RegCall(name, resource_id, argument, download_fails, outcome) ==
    [name |-> name, resource_id |-> resource_id, argument |-> argument,
     download_fails |-> download_fails,
     stored_before |-> IF registry_blob = None THEN <<>> ELSE Get(registry_blob).resources,
     blob_before |-> registry_blob, outcome |-> outcome]

\* the payloads of add_resource
ResourcePayloads ==
    LET base == {[id |-> i, type |-> "storage_bucket", name |-> n] :
                    i \in ResourceIds \cup {""}, n \in {"assets"}}
    IN  base \cup {DictSet(b, "config", [delete_protection |-> p]) : b \in base, p \in BOOLEAN}

\* add_resource
add_resource(resource, download_fails) ==
    LET valid == _validate_resource_payload(resource)
        registry == _load_registry(DownloadRegistry(download_fails))
        stamped == DictSet(SetDefault(valid.value, "created_at", NowIso), "updated_at", NowIso)
    IN  IF valid.kind = "raises" THEN [outcome |-> valid, blob |-> registry_blob]
        ELSE IF _find_resource_index(registry, resource["id"]) /= 0
        THEN [outcome |-> Raises("ValueError"), blob |-> registry_blob]
        ELSE [outcome |-> Returns(resource["id"]),
              blob |-> Some([registry EXCEPT !.resources = Append(@, stamped)])]

AddResource ==
    \E resource \in ResourcePayloads : \E download_fails \in BOOLEAN :
        LET r == add_resource(resource, download_fails)
        IN  /\ registry_blob' = r.blob
            /\ reg_call' = Some(RegCall("add_resource", resource["id"], resource, download_fails,
                                        r.outcome))

\* registry["resources"].pop(idx)
Popped(resources, idx) ==
    [i \in 1..(Len(resources) - 1) |-> IF i < idx THEN resources[i] ELSE resources[i + 1]]

\* bool(res.get("config", {}).get("delete_protection", False))
delete_protection(resource) ==
    /\ "config" \in DOMAIN resource
    /\ "delete_protection" \in DOMAIN resource["config"]
    /\ resource["config"]["delete_protection"]

\* delete_resource
delete_resource(resource_id, download_fails) ==
    LET registry == _load_registry(DownloadRegistry(download_fails))
        idx == _find_resource_index(registry, resource_id)
    IN  IF idx = 0 THEN [outcome |-> Returns(FALSE), blob |-> registry_blob]
        ELSE IF delete_protection(registry.resources[idx])
        THEN [outcome |-> Raises("PermissionError"), blob |-> registry_blob]
        ELSE [outcome |-> Returns(TRUE),
              blob |-> Some([registry EXCEPT !.resources = Popped(@, idx)])]

DeleteResource ==
    \E resource_id \in ResourceIds : \E download_fails \in BOOLEAN :
        LET r == delete_resource(resource_id, download_fails)
        IN  /\ registry_blob' = r.blob
            /\ reg_call' = Some(RegCall("delete_resource", resource_id, <<>>, download_fails,
                                        r.outcome))

\* the updates of update_resource
ResourceUpdates ==
    {[name |-> "renamed"], [name |-> ""], [config |-> [delete_protection |-> FALSE]]}
    \cup {[id |-> i] : i \in ResourceIds}

\* update_resource
update_resource(resource_id, updates, download_fails) ==
    LET registry == _load_registry(DownloadRegistry(download_fails))
        idx == _find_resource_index(registry, resource_id)
        merged == DictSet(DictMerge(registry.resources[idx], updates), "updated_at", NowIso)
        valid == _validate_resource_payload(merged)
    IN  IF "id" \in DOMAIN updates /\ updates["id"] /= resource_id
        THEN [outcome |-> Raises("ValueError"), blob |-> registry_blob]
        ELSE IF idx = 0 THEN [outcome |-> Raises("ValueError"), blob |-> registry_blob]
        ELSE IF valid.kind = "raises" THEN [outcome |-> valid, blob |-> registry_blob]
        ELSE [outcome |-> Returns(valid.value),
              blob |-> Some([registry EXCEPT !.resources[idx] = valid.value])]

UpdateResource ==
    \E resource_id \in ResourceIds : \E updates \in ResourceUpdates :
      \E download_fails \in BOOLEAN :
        LET r == update_resource(resource_id, updates, download_fails)
        IN  /\ registry_blob' = r.blob
            /\ reg_call' = Some(RegCall("update_resource", resource_id, updates, download_fails,
                                        r.outcome))

InitRegistry ==
    /\ registry_blob = None
    /\ reg_call = None
    \* the other subsystems at rest
    /\ sql_in = <<>>
    /\ cap_in = 0
    /\ sql_pc = "idle"
    /\ dml_out = FALSE
    /\ cleaned_out = <<>>
    /\ MAX_NUM_ROWS = DefaultMaxRows
    /\ state = [query_result |-> None]
    /\ call = None
    /\ blob = None
    /\ uuid_next = 0
    /\ op = None
    /\ listed = None
    /\ cfg_blob = None
    /\ pc = <<>>
    /\ job = <<>>
    /\ snap = <<>>
    /\ res = <<>>
    /\ wlog = <<>>
    /\ tool_call = None
    /\ cli_call = None
    /\ environ = <<>>
    /\ env_call = None
    /\ log_records = <<>>
    /\ fb_resp = None
    /\ dataset = 1
    /\ _database_settings = None
    /\ session_state = <<>>
    /\ refreshed = None
    /\ db_call = None
    /\ db_query_agent_output = None
    /\ data_analyzer_agent_output = None
    /\ da_call = None
    /\ schema_tables = <<>>
    /\ schema_call = None
    /\ fs_collection = <<>>
    /\ fs_call = None

NextRegistry ==
    \/ AddResource /\ UNCHANGED restOfRegistry
    \/ DeleteResource /\ UNCHANGED restOfRegistry
    \/ UpdateResource /\ UNCHANGED restOfRegistry

SpecRegistry == InitRegistry /\ [][NextRegistry]_vars

(***************************************************************************)
(* Properties of the SQL helpers                                           *)
(***************************************************************************)
\* maximal runs of \w characters of s
WordTokens(s) ==
    { SubSeq(s, i, j) : <<i, j>> \in
        { p \in (1..Len(s)) \X (1..Len(s)) :
            /\ p[1] <= p[2]
            /\ \A k \in p[1]..p[2] : IsWordChar(s[k])
            /\ ~WordAt(s, p[1] - 1)
            /\ ~WordAt(s, p[2] + 1) } }

\* s holds a disallowed keyword as a whole word, in any letter case
HasKeywordWord(s) == \E t \in WordTokens(s) : LowerStr(t) \in DISALLOWED_KEYWORDS

\* s holds a disallowed keyword anywhere, also inside a longer word
HasKeywordText(s) == \E kw \in DISALLOWED_KEYWORDS : Contains(LowerStr(s), kw)

DeleteFromT == <<"D","E","L","E","T","E"," ","F","R","O","M"," ","t">>
UpdatedAt == <<"u","p","d","a","t","e","d","_","a","t">>

\* C2: _is_disallowed_dml is true exactly for the inputs that hold one of
\* the eight keywords as a whole word, in any letter case; 'DELETE FROM t'
\* is rejected and the identifier 'updated_at' is not.
C2_DenylistWholeWord ==
    /\ sql_pc = "checked" => (dml_out <=> HasKeywordWord(sql_in))
    /\ _is_disallowed_dml(DeleteFromT)
    /\ ~_is_disallowed_dml(UpdatedAt)

\* a keyword inside a longer identifier was checked and not rejected
C2_Witness ==
    /\ sql_pc = "checked"
    /\ HasKeywordText(sql_in)
    /\ ~HasKeywordWord(sql_in)
    /\ ~dml_out

\* s has a LIMIT clause: the word limit, in any letter case
HasLimitClause(s) == \E t \in WordTokens(s) : LowerStr(t) = LimitText

\* number of LIMIT clauses of s
LimitClauses(s) ==
    Cardinality({ i \in 1..Len(s) :
        /\ MatchAt(LowerStr(s), i, LimitText)
        /\ ~WordAt(s, i - 1)
        /\ ~WordAt(s, i + Len(LimitText)) })

EndsWith(s, t) == Len(t) <= Len(s) /\ SubSeq(s, Len(s) - Len(t) + 1, Len(s)) = t

\* C3: for every query that has no LIMIT clause, _cleanup_sql returns a
\* query with exactly one limit clause, appended at the end, whose value is
\* max_rows.
C3_LimitAppendedWhenNoClause ==
    (sql_pc = "cleaned" /\ ~HasLimitClause(sql_in)) =>
        /\ EndsWith(cleaned_out, LimitSuffix(cap_in))
        /\ LimitClauses(cleaned_out) = 1

\* C4 as stated: a query that contains the text limit, in any letter case,
\* is returned unmodified.
C4_ReturnedUnmodified ==
    (sql_pc = "cleaned" /\ Contains(LowerStr(sql_in), LimitText)) =>
        cleaned_out = sql_in

HasEscapes(s) == \E i \in 1..Len(s) : s[i] = "\\"

HasOuterWhitespace(s) == s /= <<>> /\ (s[1] \in Whitespace \/ s[Len(s)] \in Whitespace)

\* C4 amended: a query that contains the text limit, in any letter case,
\* gets no limit clause appended: the result holds the text limit as often
\* as the input, is no longer than the input, and is the input itself
\* when the input has no backslash escape and no surrounding whitespace.
C4_NoLimitAppended ==
    (sql_pc = "cleaned" /\ Contains(LowerStr(sql_in), LimitText)) =>
        /\ Count(LowerStr(cleaned_out), LimitText) = Count(LowerStr(sql_in), LimitText)
        /\ Len(cleaned_out) <= Len(sql_in)
        /\ (~HasEscapes(sql_in) /\ ~HasOuterWhitespace(sql_in)) => cleaned_out = sql_in

\* a query with the text limit and an escape was cleaned, and changed
C4_Witness ==
    /\ sql_pc = "cleaned"
    /\ Contains(LowerStr(sql_in), LimitText)
    /\ HasEscapes(sql_in)
    /\ cleaned_out /= sql_in

(***************************************************************************)
(* Properties of run_bigquery_validation                                   *)
(***************************************************************************)
Called == IsSome(call)
LastCall == Get(call)
Succeeded == Called /\ LastCall.engine.kind = "ok"

\* C1: a call whose SQL matches the denylist returns query_result null and
\* the disallowed-operations message, submits nothing to the engine and
\* leaves the session state, state['query_result'] included, unchanged.
C1_DenylistRejects ==
    (Called /\ _is_disallowed_dml(LastCall.sql_string)) =>
        /\ LastCall.final_result =
              [query_result |-> None, error_message |-> Some(MsgDisallowed)]
        /\ LastCall.submitted = <<>>
        /\ ~LastCall.raised
        /\ state = LastCall.state_before

\* a denylisted call made while state['query_result'] held rows
C1_Witness ==
    /\ Called
    /\ _is_disallowed_dml(LastCall.sql_string)
    /\ IsSome(LastCall.state_before.query_result)
    /\ Get(LastCall.state_before.query_result) /= <<>>

\* C5: after a successful call the returned rows and state['query_result']
\* are the first rows of the result, in result order, and are at most
\* MAX_NUM_ROWS many, for every cap >= 0.
C5_RowsWithinCap ==
    Succeeded =>
        LET rows == Get(LastCall.final_result.query_result)
        IN  /\ Len(rows) <= MAX_NUM_ROWS
            /\ Len(rows) <= Len(LastCall.engine.rows)
            /\ \A i \in 1..Len(rows) : rows[i] = FormatRow(LastCall.engine.rows[i])
            /\ state.query_result = Some(rows)

\* C6: a call whose query ran without error and yielded zero rows reports
\* success (query_result is the empty list, not null) together with the
\* explanatory no-results message, and records the empty list in
\* state['query_result'].
C6_ZeroRows ==
    (Succeeded /\ (LastCall.engine.rows = <<>> \/ ~LastCall.engine.schema)) =>
        /\ LastCall.final_result =
              [query_result |-> Some(<<>>), error_message |-> Some(MsgNoResults)]
        /\ state.query_result = Some(<<>>)

\* a zero-row call that replaced rows held in state['query_result']
C6_Witness ==
    /\ Succeeded
    /\ LastCall.engine.rows = <<>>
    /\ IsSome(LastCall.state_before.query_result)
    /\ Get(LastCall.state_before.query_result) /= <<>>
    /\ state.query_result = Some(<<>>)

ExecutionRaised ==
    Called /\ LastCall.engine.kind \in {"query_error", "result_error", "iter_error"}

\* C7: when executing the cleaned query raises, the call does not raise, it
\* returns query_result null and 'Invalid SQL: <exception text>', and it has
\* submitted the cleaned query to the engine exactly once.
C7_ExceptionReturned ==
    ExecutionRaised =>
        /\ ~LastCall.raised
        /\ LastCall.final_result =
              [query_result |-> None,
               error_message |-> Some(<<"Invalid SQL: ", LastCall.engine.exc>>)]
        /\ LastCall.submitted = <<_cleanup_sql(LastCall.sql_string, MAX_NUM_ROWS)>>

\* a call whose query was refused by the engine
C7_Witness ==
    /\ Called
    /\ LastCall.engine.kind = "query_error"
    /\ LastCall.engine.exc = "Table not found"
    /\ Len(LastCall.submitted) = 1

\* C8: in the returned rows every date-typed value is the text YYYY-MM-DD of
\* that date and every value that is not date-typed (a DATE) is passed
\* through unchanged under the same key.
C8_DatesRendered ==
    Succeeded =>
        LET rows == Get(LastCall.final_result.query_result)
        IN  \A i \in 1..Len(rows) :
              LET raw == LastCall.engine.rows[i]
              IN  /\ DOMAIN rows[i] = DOMAIN raw
                  /\ \A key \in DOMAIN raw :
                        IF raw[key].type = "date"
                        THEN rows[i][key] = StrValue(Strftime(raw[key]))
                        ELSE rows[i][key] = raw[key]

(***************************************************************************)
(* Properties of the strategy store                                        *)
(***************************************************************************)
Mutated == IsSome(op)
LastOp == Get(op)

\* the last mutation was a create_strategy without an explicit strategy_id
\* on a strategies object that could be read
CreatedWithoutId ==
    /\ Mutated
    /\ LastOp.name = "create_strategy"
    /\ ~Truthy(DictGet(LastOp.arg, "strategy_id"))
    /\ IsSome(LastOp.before)

MissedId ==
    /\ Mutated
    /\ LastOp.name \in {"update_strategy", "delete_strategy"}
    /\ "strategy_id" \in DOMAIN LastOp.arg
    /\ IsSome(LastOp.before)
    /\ LastOp.arg["strategy_id"] \notin IdsOf(Get(LastOp.before))

\* C10: update_strategy_by_id and delete_strategy_by_id called with an id
\* that no stored strategy has return False without raising, the tools
\* report status 'error' with 'Strategy not found', and nothing is written:
\* the strategies object is unchanged.
C10_MissingIdNoWrite ==
    MissedId =>
        /\ LastOp.ret = Some(FALSE)
        /\ LastOp.raised = None
        /\ LastOp.result.status = "error"
        /\ LastOp.result.error_message = Some("Strategy not found")
        /\ LastOp.writes = 0
        /\ blob = LastOp.before

\* a delete that named an id absent from a non-empty store
C10_Witness ==
    /\ MissedId
    /\ LastOp.name = "delete_strategy"
    /\ Get(LastOp.before) /= <<>>

(***************************************************************************)
(* Properties of file creation                                             *)
(***************************************************************************)
IsBlankText(t) == \A i \in 1..Len(t) : t[i] \in Whitespace

\* the 'name' of the config is missing, not a string, empty or whitespace-only
InvalidName(config) ==
    \/ "name" \notin DOMAIN config
    \/ config["name"].t /= "str"
    \/ IsBlankText(config["name"].v)

ConfigFields ==
    {"name", "business_description", "budget", "enable_budget_alerts",
     "allowed_campaign_channels"}

ConfigDefaults ==
    [business_description |-> JStr(<<>>), budget |-> JInt(0),
     enable_budget_alerts |-> JBool(FALSE), allowed_campaign_channels |-> JList(<<>>)]

ConfigCreateCalled == Mutated /\ LastOp.name = "create_business_config_file"

\* C11: create_business_config_file rejects a payload whose 'name' is
\* missing, empty, whitespace-only or not a string with the invalid-argument
\* error before any existence check or write; an accepted payload is stored
\* with exactly the five config fields, every unspecified optional field at
\* its default (empty string, 0, false, empty list).
C11_ConfigValidated ==
    ConfigCreateCalled =>
        /\ InvalidName(LastOp.arg) =>
              /\ LastOp.result = FileError(ErrInvalidName)
              /\ LastOp.checks = 0
              /\ LastOp.writes = 0
              /\ cfg_blob = LastOp.before
        /\ (~InvalidName(LastOp.arg) /\ IsNone(LastOp.before)) =>
              /\ LastOp.result.status = "success"
              /\ LastOp.writes = 1
              /\ IsSome(cfg_blob)
              /\ DOMAIN Get(cfg_blob) = ConfigFields
              /\ \A k \in DOMAIN ConfigDefaults \ DOMAIN LastOp.arg :
                    Get(cfg_blob)[k] = ConfigDefaults[k]

\* a whitespace-only name was rejected while the config object existed
C11_Witness ==
    /\ ConfigCreateCalled
    /\ "name" \in DOMAIN LastOp.arg
    /\ LastOp.arg["name"] = JStr(<<" ", "\t">>)
    /\ IsSome(LastOp.before)
    /\ LastOp.checks = 0

FileCreateCalled ==
    Mutated /\ LastOp.name \in {"create_strategy_file", "create_business_config_file"}

\* the object the last file creation was about, as it is now
FileObject == IF LastOp.name = "create_strategy_file" THEN blob ELSE cfg_blob

\* C14 as stated: a file creation for an object that already exists fails
\* with the already-exists error, leaves the content unchanged, and a write
\* happens only when the object did not exist.
C14_AlreadyExistsError ==
    FileCreateCalled =>
        /\ IsSome(LastOp.before) =>
              /\ LastOp.result.status = "error"
              /\ LastOp.result.error_message = Some(ErrFileExists)
              /\ FileObject = LastOp.before
        /\ LastOp.writes > 0 => IsNone(LastOp.before)

\* C14 amended: a file creation for an object that already exists fails
\* with status 'error' and leaves the content unchanged; the error is the
\* already-exists error, except that create_business_config_file with an
\* invalid 'name' fails with the invalid-argument error; a write happens
\* only when the object did not exist.
C14_ExistingObjectKept ==
    FileCreateCalled =>
        /\ IsSome(LastOp.before) =>
              /\ LastOp.result.status = "error"
              /\ LastOp.result.error_message =
                    Some(IF LastOp.name = "create_business_config_file"
                            /\ InvalidName(LastOp.arg)
                         THEN ErrInvalidName ELSE ErrFileExists)
              /\ LastOp.writes = 0
              /\ FileObject = LastOp.before
        /\ LastOp.writes > 0 => IsNone(LastOp.before)

\* a valid config was refused because the config object existed
C14_Witness ==
    /\ ConfigCreateCalled
    /\ ~InvalidName(LastOp.arg)
    /\ IsSome(LastOp.before)
    /\ LastOp.result.error_message = Some(ErrFileExists)
    /\ cfg_blob = LastOp.before

(***************************************************************************)
(* Properties of concurrent storage calls                                  *)
(***************************************************************************)
\* position in wlog of the request of caller p with the step, 0 if none
RequestAt(p, step) ==
    IF \E i \in DOMAIN wlog : wlog[i].who = p /\ wlog[i].step = step
    THEN CHOOSE i \in DOMAIN wlog : wlog[i].who = p /\ wlog[i].step = step
    ELSE 0

\* caller q made the last upload of the object
LastWriter(q, object) ==
    /\ RequestAt(q, "write") /= 0
    /\ \A i \in DOMAIN wlog :
          (wlog[i].object = object /\ wlog[i].step = "write") => i <= RequestAt(q, "write")

DoneWith(p, kinds) == pc[p] = "done" /\ IsSome(job[p]) /\ Get(job[p]).kind \in kinds

\* p and q both uploaded, q read before p's upload and uploaded after it,
\* and no upload of the object followed q's
Interleaved(p, q, object) ==
    /\ p /= q
    /\ RequestAt(p, "write") /= 0
    /\ RequestAt(q, "read") /= 0
    /\ RequestAt(q, "read") < RequestAt(p, "write")
    /\ RequestAt(p, "write") < RequestAt(q, "write")
    /\ LastWriter(q, object)

CreatedId(p) == Get(Get(res[p]).strategy_id)

\* C12: when two create_strategy calls interleave (the second reads the
\* list before the first writes it back and writes after it), both report
\* success and the stored list is the second caller's snapshot plus its own
\* strategy: the first caller's strategy is lost.
C12_LostUpdate ==
    \A p, q \in Callers :
        (/\ DoneWith(p, {"create_strategy"})
         /\ DoneWith(q, {"create_strategy"})
         /\ Interleaved(p, q, "strategies")) =>
            /\ Get(res[p]).status = "success"
            /\ Get(res[q]).status = "success"
            /\ ReadOk
            /\ Len(Strategies) = Len(Get(snap[q])) + 1
            /\ CreatedId(q) \in IdsOf(Strategies)
            /\ CreatedId(p) \notin IdsOf(Strategies)

\* two interleaved create_strategy calls have both returned
C12_Witness ==
    \E p, q \in Callers :
        /\ DoneWith(p, {"create_strategy"})
        /\ DoneWith(q, {"create_strategy"})
        /\ Interleaved(p, q, "strategies")
        /\ Get(res[p]).status = "success"
        /\ Get(res[q]).status = "success"

\* the content a file creation uploads
CreatedContent(j) ==
    IF j.kind = "create_business_config_file"
    THEN Some(ConfigPayload(j.arg, NameOf(j.arg))) ELSE Some(<<>>)

\* C13: two file creations for the same object whose existence checks both
\* found no object both upload and both return success, and the object
\* holds what the later upload wrote, replacing the earlier one.
C13_BothCreate ==
    \A p, q \in Callers : \A k \in {"create_strategy_file", "create_business_config_file"} :
        (/\ p /= q
         /\ DoneWith(p, {k})
         /\ DoneWith(q, {k})
         /\ snap[p] = Some(FALSE)
         /\ snap[q] = Some(FALSE)) =>
            /\ Get(res[p]).status = "success"
            /\ Get(res[q]).status = "success"
            /\ RequestAt(p, "write") /= 0
            /\ RequestAt(q, "write") /= 0
            /\ LastWriter(q, ObjectName(k)) => ObjectOf(k) = CreatedContent(Get(job[q]))

\* two config creations both succeeded and the first one's payload is gone
C13_Witness ==
    \E p, q \in Callers :
        /\ DoneWith(p, {"create_business_config_file"})
        /\ DoneWith(q, {"create_business_config_file"})
        /\ Interleaved(p, q, "config")
        /\ Get(res[p]).status = "success"
        /\ Get(res[q]).status = "success"
        /\ CreatedContent(Get(job[p])) /= CreatedContent(Get(job[q]))
        /\ cfg_blob = CreatedContent(Get(job[q]))

(***************************************************************************)
(* Properties of the tool wrappers                                         *)
(***************************************************************************)
ToolCalled == IsSome(tool_call)
LastToolCall == Get(tool_call)

\* C15: a storage tool or a document tool never raises; it returns a result
\* whose status is 'success' or 'error', and when the call it wraps raised,
\* the status is 'error' and error_message is the exception text.
C15_ToolsNeverRaise ==
    ToolCalled =>
        /\ LastToolCall.tool \in StorageTools \cup DocumentTools
        /\ LastToolCall.propagated = None
        /\ IsSome(LastToolCall.returned)
        /\ Get(LastToolCall.returned).status \in {"success", "error"}
        /\ LastToolCall.outcome.kind = "raises" =>
              /\ Get(LastToolCall.returned).status = "error"
              /\ Get(LastToolCall.returned).error_message = LastToolCall.outcome.exc.text

\* a document tool whose Firestore call raised PermissionDenied returned
C15_Witness ==
    /\ ToolCalled
    /\ LastToolCall.tool = "fs_update_document_field"
    /\ LastToolCall.outcome.kind = "raises"
    /\ LastToolCall.outcome.exc.type = "PermissionDenied"
    /\ IsSome(LastToolCall.returned)

(***************************************************************************)
(* Properties of the cli tools                                             *)
(***************************************************************************)
CliCalled == IsSome(cli_call)
LastCliCall == Get(cli_call)

\* C16: cli_run and cli_gcloud never propagate an exception: a command that
\* exits non-zero with check=True, cannot be split into arguments or names
\* an executable that cannot be started is returned with status 'error',
\* and status 'success' is returned only when the process ran (with exit
\* code 0 when check=True).
C16_CliNeverRaises ==
    CliCalled =>
        /\ LastCliCall.propagated = None
        /\ IsSome(LastCliCall.returned)
        /\ LastCliCall.outcome.kind = "raises" =>
              Get(LastCliCall.returned).status = "error"
        /\ Get(LastCliCall.returned).status = "success" =>
              /\ LastCliCall.outcome.kind = "returns"
              /\ LastCliCall.check => LastCliCall.outcome.value = 0

(***************************************************************************)
(* Properties of the environment file loader                               *)
(***************************************************************************)
EnvLoaded == IsSome(env_call)
LastEnvCall == Get(env_call)

\* a blank line, a line starting with '#' or a line without '='
SkippedLine(line) ==
    \/ Strip(line) = <<>>
    \/ Strip(line)[1] = "#"
    \/ \A i \in DOMAIN line : line[i] /= "="

\* the assignments the lines of a file stand for, in order: the trimmed text
\* before the first '=' gets the trimmed text after it, unquoted when quoted
RECURSIVE AssignmentsOf(_)
AssignmentsOf(lines) ==
    IF lines = <<>> THEN <<>>
    ELSE IF SkippedLine(Head(lines)) THEN AssignmentsOf(Tail(lines))
    ELSE <<[key |-> Strip(SplitKey(Head(lines))),
            value |-> UnquotedIfMatching(Strip(SplitValue(Head(lines))))]>>
         \o AssignmentsOf(Tail(lines))

RECURSIVE Assigned(_, _)
Assigned(env, assignments) ==
    IF assignments = <<>> THEN env
    ELSE Assigned(DictSet(env, Head(assignments).key, Head(assignments).value),
                  Tail(assignments))

\* C17: load_env_vars skips blank lines, '#' lines and lines without '='
\* without error; every other line sets the variable named by the trimmed
\* text before the first '=' to the trimmed text after it, with the
\* surrounding quotes removed when the value is quoted; the count returned
\* is the number of assignments; a missing file yields 0 and no change.
C17_EnvLoaded ==
    EnvLoaded =>
        IF IsNone(LastEnvCall.file)
        THEN /\ LastEnvCall.ret = Some(0)
             /\ environ = LastEnvCall.before
        ELSE LET assignments == AssignmentsOf(Get(LastEnvCall.file))
             IN  /\ LastEnvCall.raised = None
                 /\ LastEnvCall.ret = Some(Len(assignments))
                 /\ environ = Assigned(LastEnvCall.before, assignments)

(***************************************************************************)
(* Properties of the feedback endpoint                                     *)
(***************************************************************************)
FeedbackPosted == IsSome(fb_resp)
LastFeedback == Get(fb_resp)

\* C18: collect_feedback returns the same fixed success acknowledgment for
\* every submission, whether logging the feedback succeeds or raises, and
\* never returns an error to the client.
C18_SameAcknowledgment ==
    FeedbackPosted =>
        /\ LastFeedback.propagated = None
        /\ LastFeedback.returned = Some([status |-> "success"])

(***************************************************************************)
(* Properties of the database settings cache                               *)
(***************************************************************************)
DbCalled == IsSome(db_call)
LastDbCall == Get(db_call)

\* the functions that go through get_database_settings
GetFunctions ==
    {"get_database_settings", "data_analysis.setup_before_agent_call",
     "bigquery.setup_before_agent_call"}

\* the last call reached get_database_settings while the cache was populated
GotFromCache ==
    /\ DbCalled
    /\ LastDbCall.fn \in GetFunctions
    /\ IsSome(LastDbCall.cache_before)
    /\ LastDbCall.raised /= Some(ErrKeyError)

\* C19: once the settings have been built, every later get_database_settings
\* call, direct or from either before-agent callback, returns the cached
\* settings, starts no schema build and leaves the cache as it was.
C19_SettingsMemoized ==
    GotFromCache =>
        /\ LastDbCall.returned = LastDbCall.cache_before
        /\ LastDbCall.raised = None
        /\ LastDbCall.builds = 0
        /\ _database_settings = LastDbCall.cache_before

\* a callback got the cached settings although the dataset has changed since
\* they were built
C19_Witness ==
    /\ GotFromCache
    /\ LastDbCall.fn = "data_analysis.setup_before_agent_call"
    /\ Get(LastDbCall.cache_before).bq_ddl_schema /= dataset
    /\ LastDbCall.returned = LastDbCall.cache_before

\* C20: after update_database_settings has returned a rebuilt snapshot while
\* settings were cached, a get_database_settings call returns that refreshed
\* snapshot rather than the previously cached one.
C20_UpdateRefreshes ==
    (/\ DbCalled
     /\ LastDbCall.fn = "get_database_settings"
     /\ IsSome(LastDbCall.cache_before)
     /\ IsSome(refreshed)) =>
        LastDbCall.returned = refreshed

(***************************************************************************)
(* Properties of what reaches the query engine                             *)
(***************************************************************************)
\* C27: every SQL text run_bigquery_validation submits to the query engine,
\* that is the text after the normalization of _cleanup_sql, holds none of
\* the denylisted keywords as a whole word.
C27_SubmittedTextClean ==
    Called =>
        \A i \in DOMAIN LastCall.submitted : ~HasKeywordWord(LastCall.submitted[i])

(***************************************************************************)
(* Properties of the stored strategy ids                                   *)
(***************************************************************************)
\* C30: after any sequence of create_strategy, update_strategy_by_id and
\* delete_strategy_by_id calls on a list that starts empty, no two stored
\* strategies share the same strategy_id.
C30_UniqueStrategyIds ==
    ReadOk =>
        \A i, j \in DOMAIN Strategies :
            (/\ i /= j
             /\ "strategy_id" \in DOMAIN Strategies[i]
             /\ "strategy_id" \in DOMAIN Strategies[j]) =>
                Strategies[i]["strategy_id"] /= Strategies[j]["strategy_id"]

(***************************************************************************)
(* Properties of the analyzer tool                                         *)
(***************************************************************************)
DaCalled == IsSome(da_call)
LastDaCall == Get(da_call)

\* the analyzer sub-agent was invoked by the last call
AnalyzerInvoked == DaCalled /\ IsSome(LastDaCall.passed)

\* the question is not 'N/A' and query_result was present and not empty
AnalysisWanted ==
    /\ LastDaCall.question /= "N/A"
    /\ LastDaCall.query_result_before /= None
    /\ LastDaCall.query_result_before /= Some(<<>>)

StoredDbOutput ==
    IF LastDaCall.db_out_before = None THEN "" ELSE Get(LastDaCall.db_out_before)

\* C23: call_data_analyzer_agent invokes the analyzer only when the
\* question is not 'N/A' and state['query_result'] is present and not an
\* empty list; otherwise it returns the stored db_query_agent_output (or an
\* explanatory message when that is empty and the question is not 'N/A'),
\* invokes nothing and does not write state['data_analyzer_agent_output'].
C23_AnalyzerGuarded ==
    DaCalled =>
        /\ AnalyzerInvoked => AnalysisWanted
        /\ ~AnalysisWanted =>
              /\ ~AnalyzerInvoked
              /\ LastDaCall.raised = None
              /\ data_analyzer_agent_output = LastDaCall.output_before
              /\ IF StoredDbOutput /= "" \/ LastDaCall.question = "N/A"
                 THEN LastDaCall.returned = Some(StoredDbOutput)
                 ELSE LastDaCall.returned \in {Some(MsgNoQueryResult), Some(MsgZeroRows)}

\* a real question on a query result of zero rows, no db output stored
C23_Witness ==
    /\ DaCalled
    /\ LastDaCall.question /= "N/A"
    /\ LastDaCall.query_result_before = Some(<<>>)
    /\ StoredDbOutput = ""
    /\ LastDaCall.returned = Some(MsgZeroRows)
    /\ ~AnalyzerInvoked

\* C28: state['query_result'] is written only by a validation whose query
\* executed successfully; a rejected or failing validation leaves it
\* unchanged, so the state holds the rows of the last successful one, and
\* those are the rows call_data_analyzer_agent passes to the analyzer.
C28_QueryResultFrame ==
    /\ ~Called => state.query_result = None
    /\ Called =>
          state.query_result =
              IF LastCall.engine.kind = "ok" THEN LastCall.final_result.query_result
              ELSE LastCall.state_before.query_result
    /\ AnalyzerInvoked => Get(LastDaCall.passed) = state.query_result

\* the analyzer got the rows of an earlier validation after a later one failed
C28_Witness ==
    /\ Called
    /\ LastCall.engine.kind = "query_error"
    /\ LastCall.state_before.query_result /= None
    /\ LastCall.state_before.query_result /= Some(<<>>)
    /\ AnalyzerInvoked
    /\ Get(LastDaCall.passed) = LastCall.state_before.query_result

(***************************************************************************)
(* Properties of the schema snapshot builder                               *)
(***************************************************************************)
SchemaCalled == IsSome(schema_call)
LastSchemaCall == Get(schema_call)
SchemaReturned == SchemaCalled /\ LastSchemaCall.outcome.kind = "returns"
SchemaBlocks == LastSchemaCall.outcome.value

\* the tables the snapshot renders, in the order of the metadata rows
RECURSIVE RenderedTables(_)
RenderedTables(i) ==
    IF i > Len(schema_tables) THEN <<>>
    ELSE LET t == schema_tables[i]
             cfg == t.external_data_configuration
         IN  (IF \/ t.table_type \in {"TABLE", "VIEW"}
                 \/ /\ t.table_type = "EXTERNAL"
                    /\ cfg /= None
                    /\ cfg[1].source_format = "ICEBERG"
              THEN <<i>> ELSE <<>>) \o RenderedTables(i + 1)

BlockMatchesTable(b) ==
    LET t == schema_tables[b.table]
    IN  /\ b.kind = t.table_type
        /\ b.kind = "TABLE" => b.columns = t.columns /\ b.inserts <= 5
        /\ b.kind = "VIEW" => b.view_query = t.view_query[1]
        /\ b.kind = "EXTERNAL" =>
              /\ b.connection_id = t.external_data_configuration[1].connection_id
              /\ b.uris = t.external_data_configuration[1].source_uris

\* C21: get_bigquery_schema emits, in the order of the metadata rows, exactly
\* one block per TABLE (columns and at most 5 inserts), per VIEW (its query)
\* and per EXTERNAL ICEBERG table (connection and URIs), nothing for any
\* other kind or format; an error only comes from the metadata query or from
\* a table that cannot be fetched, never from an unsupported kind.
C21_OneBlockPerSupportedTable ==
    SchemaCalled =>
        /\ SchemaReturned =>
              /\ [k \in DOMAIN SchemaBlocks |-> SchemaBlocks[k].table] = RenderedTables(1)
              /\ \A k \in DOMAIN SchemaBlocks : BlockMatchesTable(SchemaBlocks[k])
        /\ ~SchemaReturned =>
              \/ LastSchemaCall.metadata_fails
              \/ \E i \in DOMAIN schema_tables : schema_tables[i].gone

\* a snapshot of a dataset with an unsupported kind before a rendered table,
\* an external table of another format, and a table of more than 5 rows
C21_Witness ==
    /\ SchemaReturned
    /\ Len(schema_tables) = 2
    /\ schema_tables[1].table_type \in {"SNAPSHOT", "MATERIALIZED_VIEW", "EXTERNAL"}
    /\ ~(2 \in LastSchemaCall.failing)
    /\ Len(schema_tables[2].rows) > 5
    /\ Len(SchemaBlocks) = 1
    /\ SchemaBlocks[1].inserts = 5

\* C22: when the sampling query of a table fails the snapshot is still
\* returned, the block of that table holds its column definitions and the
\* placeholder comment and no example row, and every other table is rendered.
C22_SamplingFailureTolerated ==
    (SchemaCalled /\ ~LastSchemaCall.metadata_fails
        /\ \A i \in DOMAIN schema_tables : ~schema_tables[i].gone) =>
        /\ SchemaReturned
        /\ [k \in DOMAIN SchemaBlocks |-> SchemaBlocks[k].table] = RenderedTables(1)
        /\ \A k \in DOMAIN SchemaBlocks :
              (SchemaBlocks[k].kind = "TABLE" /\ SchemaBlocks[k].table \in LastSchemaCall.failing) =>
                 /\ SchemaBlocks[k].columns = schema_tables[SchemaBlocks[k].table].columns
                 /\ SchemaBlocks[k].columns /= <<>>
                 /\ SchemaBlocks[k].note
                 /\ SchemaBlocks[k].inserts = 0
                 /\ ~SchemaBlocks[k].header

\* the sampling query of the first of two tables failed, both are rendered
C22_Witness ==
    /\ SchemaReturned
    /\ Len(schema_tables) = 2
    /\ schema_tables[1].table_type = "TABLE"
    /\ Len(schema_tables[1].rows) > 0
    /\ LastSchemaCall.failing = {1}
    /\ Len(SchemaBlocks) = 2
    /\ SchemaBlocks[1].note
    /\ ~SchemaBlocks[2].note

(***************************************************************************)
(* Properties of the Firestore document listing                            *)
(***************************************************************************)
FsListed == IsSome(fs_call) /\ Get(fs_call).result.status = "success"
FsDocuments == Get(fs_call).result.documents

\* C24: with include_ids the listing has one entry per document and the
\* "id" of every entry is the Firestore ID of its document, whatever the
\* document holds; without include_ids the entries are the contents.
C24_IdIsDocumentId ==
    FsListed =>
        /\ Len(FsDocuments) = Len(fs_collection)
        /\ \A i \in DOMAIN FsDocuments :
              IF Get(fs_call).include_ids
              THEN /\ "id" \in DOMAIN FsDocuments[i]
                   /\ FsDocuments[i]["id"] = fs_collection[i].id
              ELSE FsDocuments[i] = fs_collection[i].data

(***************************************************************************)
(* Properties of the resource registry                                     *)
(***************************************************************************)
StoredResources == IF registry_blob = None THEN <<>> ELSE Get(registry_blob).resources
RegCalled(name) == IsSome(reg_call) /\ Get(reg_call).name = name
LastRegCall == Get(reg_call)
StoredBefore == LastRegCall.stored_before
WasStored(resource_id) == \E i \in DOMAIN StoredBefore : StoredBefore[i]["id"] = resource_id
NoRegistryWrite == registry_blob = LastRegCall.blob_before

\* C25: the ids of the stored registry are pairwise different; add_resource
\* with an id that is already stored raises ValueError and writes nothing;
\* update_resource rejects an update that names another id.
C25_UniqueResourceIds ==
    /\ \A i, j \in DOMAIN StoredResources :
          StoredResources[i]["id"] = StoredResources[j]["id"] => i = j
    /\ (RegCalled("add_resource") /\ WasStored(LastRegCall.resource_id)) =>
          /\ LastRegCall.outcome = Raises("ValueError")
          /\ NoRegistryWrite
    /\ (RegCalled("update_resource") /\ "id" \in DOMAIN LastRegCall.argument
          /\ LastRegCall.argument["id"] /= LastRegCall.resource_id) =>
          /\ LastRegCall.outcome = Raises("ValueError")
          /\ NoRegistryWrite

\* C26: delete_resource of a protected resource raises PermissionError and
\* writes nothing; of an id that is not stored it returns False and writes
\* nothing; of any other resource it removes exactly that one and returns True.
C26_DeleteProtection ==
    RegCalled("delete_resource") =>
        LET id == LastRegCall.resource_id
        IN  IF ~WasStored(id)
            THEN LastRegCall.outcome = Returns(FALSE) /\ NoRegistryWrite
            ELSE LET idx == CHOOSE i \in DOMAIN StoredBefore : StoredBefore[i]["id"] = id
                 IN  IF delete_protection(StoredBefore[idx])
                     THEN LastRegCall.outcome = Raises("PermissionError") /\ NoRegistryWrite
                     ELSE /\ LastRegCall.outcome = Returns(TRUE)
                          /\ StoredResources = Popped(StoredBefore, idx)

\* C29: after a successful add_resource the stored registry holds every
\* resource that was stored before the call and the new one, whatever the
\* outcome of the download inside the call.
C29_AddPreservesOthers ==
    (RegCalled("add_resource") /\ LastRegCall.outcome.kind = "returns") =>
        /\ \A i \in DOMAIN StoredBefore :
              \E j \in DOMAIN StoredResources : StoredResources[j] = StoredBefore[i]
        /\ \E j \in DOMAIN StoredResources :
              StoredResources[j]["id"] = LastRegCall.resource_id

====
